---- MODULE Spec2Model ----
(***************************************************************************)
(* Realtime chat of Movilrecetas-app: the typing-presence aggregator and   *)
(* the message relay of ChatUseCase, and the useChat hook that owns the UI *)
(* state fed by them.                                                      *)
(*                                                                         *)
(* Time is the value of Date.now() in milliseconds, counted from the first *)
(* suscribirseAEscritura call.  A setInterval callback runs at the instant *)
(* it is due or at any later one, and the next period is counted from the  *)
(* instant it ran.                                                         *)
(*                                                                         *)
(* useAuth and AuthUseCase: an async function gives the event loop back at *)
(* each await, so each answer awaited is a step of its own, and the calls  *)
(* in flight interleave at these steps.                                    *)
(***************************************************************************)
EXTENDS Integers, Sequences, FiniteSets, TLC

\* ------------------------------------------------------------------ bounds
\* Number of subscribe calls of each kind (closures created).
MaxSubs == 2
\* Sweep periods the clock runs through.
MaxTics == 5
\* Message rows of the backend table that insert-events can name.
MaxMsgs == 2
\* Enrichment fetches in flight for one subscription and one message id.
MaxEnVuelo == 2
\* Sends the hook passes on to the use case.
MaxEnvios == 2
\* Rows inserted into indicadores_escritura, with the typing calls in flight.
MaxIndicadores == 2
\* Loads of the message list in flight at once.
MaxCargas == 1
\* Auth state changes emitted whose handling has not ended.
MaxEventos == 2
\* Calls of registrar, iniciarSesion, cerrarSesion and crearPerfilConRol in a run.
MaxLlamadas == 3
\* Milliseconds past a multiple of the sweep period at which the clock is read.
MaxRetraso == 2

\* ------------------------------------------------------- program constants
\* ChatUseCase.ts:97   if (ahora - timestamp > 3000)
InactividadMs == 3000
\* ChatUseCase.ts:108  setInterval(limpiarInactivos, 1000)
IntervaloLimpiezaMs == 1000

\* ChatUseCase.ts:11   async obtenerMensajes(limite: number = 50)
LimitePorDefecto == 50

PasoMs == IntervaloLimpiezaMs
TiempoMax == MaxTics * PasoMs + MaxRetraso
\* The values Date.now() is read with: the multiples of the sweep period and
\* the milliseconds that follow each.
Instantes == {k * PasoMs + j : k \in 0..MaxTics, j \in 0..MaxRetraso}

Usuarios == {"u1", "u2"}
Subs == 1..MaxSubs
MsgIds == 1..MaxMsgs
\* Texts typed and sent, as sequences of characters.
Contenidos ==
    {<<>>, <<" ">>, <<" ", " ", " ">>, <<"\t", " ">>, <<"\r", "\n">>,
     <<"U+00A0">>, <<"a">>, <<"U+00E9">>, <<" ", "a", " ">>}
\* null of a RealtimeChannel | null field
Null == 0
SinEvento == 0 - 1

Rango(s) == {s[j] : j \in 1..Len(s)}

\* --------------------------------------------------------------- variables
VARIABLES
    now,                 \* Date.now()
    channelEscritura,    \* ChatUseCase.channelEscritura: Null or a channel
    canalesE,            \* typing channels the client still holds (not removed)
    subsE,               \* one closure per suscribirseAEscritura call
    usuariosEscribiendo, \* useChat state set by the typing callback
    ultimoEvento,        \* history: time of the last event each handler with a live sweep received per user
    escenario,           \* history: progress of "events for u1 at 0, 1000, 2000 ms"
    otraDesdeE,          \* history: a typing subscribe happened since this closure's last unsubscribe call
    barridoTardio,       \* history: a sweep of this closure ran after the instant it was due
    channelMensajes,     \* ChatUseCase.channelMensajes: Null or a channel
    canalesM,            \* message channels the client still holds (not removed)
    subsM,               \* one closure per suscribirseAMensajes call
    enVuelo,             \* handler runs awaiting their enrichment fetch, per closure and message id
    mensajes,            \* useChat state: the UI message list
    otraDesdeM,          \* history: as otraDesdeE, for message subscriptions
    entregados,          \* history: how many rows the feed has announced; they are numbered in that order
    inputTexto,          \* useChat state: the text of the input
    typingTimeoutRef,    \* useChat ref: "null" or the handle of the last setTimeout
    temporizadores,      \* pending setTimeout timers: the one the ref names, and others
    enviando,            \* useChat state
    envios,              \* contents of the ChatUseCase.enviarMensaje calls in flight
    tablaMensajes,       \* contents inserted into table mensajes, in order
    indicadores,         \* number of rows inserted into indicadores_escritura
    escrituras,          \* enviarEventoEscritura(true) calls in flight: awaiting getUser, awaiting the insert
    cargando,            \* useChat state
    cargas,              \* ChatUseCase.obtenerMensajes calls in flight
    empujados,           \* history: ids the push appended while a load was in flight
    sesion,              \* the session the Supabase client keeps in AsyncStorage
    recordarGuardado,    \* AsyncStorage item SESSION_REMEMBER_KEY
    usuarioGuardado,     \* AsyncStorage item SESSION_USER_KEY
    usuario,             \* useAuth state
    cargandoAuth,        \* useAuth state cargando
    montado,             \* the app is open: useAuth is mounted and listening
    verificacion,        \* the verificarSesionInicial call of this mount: the await it is at
    eventosAuth,         \* auth state changes emitted and not yet handed to the listener
    manejando,           \* the listener run in progress: the await it is at
    retrollamadas,       \* runs of the useAuth callback awaiting their getItem, awaiting their setObject
    login,               \* the iniciarSesion call in flight: the await it is at
    logout,              \* the cerrarSesion call in flight: "no" or the await it is at
    registro,            \* the registrar call in flight: the await it is at
    perfilando,          \* the crearPerfilConRol call in flight: the await it is at
    histA,               \* history: the last completed login and what followed
    cuenta,              \* the account in Supabase Auth: its state and the role it registered with
    perfil,              \* role of the account's row in table usuarios, or SinPerfil
    rolPendiente,        \* AsyncStorage item "pending_user_role"
    emailPendiente,      \* AsyncStorage item "pending_user_email" holds the email
    llamadas,            \* history: calls of the hook's methods made so far
    paso                 \* history: the operation that made the last step

varsE == <<now, channelEscritura, canalesE, subsE, usuariosEscribiendo,
           ultimoEvento, escenario, otraDesdeE, barridoTardio>>
varsM == <<channelMensajes, canalesM, subsM, enVuelo, mensajes, otraDesdeM,
           entregados>>
varsH == <<inputTexto, typingTimeoutRef, temporizadores, enviando, envios,
           tablaMensajes, indicadores, escrituras>>
varsL == <<cargando, cargas, empujados>>
varsR == <<cuenta, perfil, rolPendiente, emailPendiente>>
varsA == <<sesion, recordarGuardado, usuarioGuardado, usuario, cargandoAuth,
           montado, verificacion, eventosAuth, manejando, retrollamadas,
           login, logout, registro, perfilando, histA, llamadas, varsR>>
vars == <<varsE, varsM, varsH, varsL, varsA, paso>>

\* ------------------------------------------------- Map<string, number>
\* The JavaScript Map keeps insertion order; set() on a present key keeps its place.
MapHas(m, k) == \E j \in 1..Len(m) : m[j].userId = k

MapSet(m, k, v) ==
    IF MapHas(m, k)
    THEN [j \in 1..Len(m) |->
            IF m[j].userId = k THEN [userId |-> k, timestamp |-> v] ELSE m[j]]
    ELSE Append(m, [userId |-> k, timestamp |-> v])

MapKeys(m) == [j \in 1..Len(m) |-> m[j].userId]

\* --------------------------------------------------------- limpiarInactivos
ExpiradoTardio(timestamp, ahora) ==
    ahora - timestamp > InactividadMs + IntervaloLimpiezaMs

ExpiradoDesdeElUmbral(timestamp, ahora) == ahora - timestamp >= InactividadMs

ExpiradoPrecoz(timestamp, ahora) ==
    ahora - timestamp > InactividadMs - IntervaloLimpiezaMs

Expirado(timestamp, ahora) == ahora - timestamp > InactividadMs

limpiarInactivosSinAviso(m, ahora) ==
    LET resto == SelectSeq(m, LAMBDA e : ~Expirado(e.timestamp, ahora))
    IN  [mapa |-> resto, llamar |-> FALSE, lista |-> <<>>]

limpiarInactivosSoloElPrimero(m, ahora) ==
    LET vencidos == {j \in 1..Len(m) : Expirado(m[j].timestamp, ahora)}
        primero  == IF vencidos = {} THEN 0
                    ELSE CHOOSE j \in vencidos : \A k \in vencidos : j <= k
        resto    == [j \in 1..(Len(m) - IF primero = 0 THEN 0 ELSE 1) |->
                        IF primero = 0 \/ j < primero THEN m[j] ELSE m[j + 1]]
    IN  [mapa   |-> resto,
         llamar |-> primero # 0,
         lista  |-> IF primero # 0 THEN MapKeys(resto) ELSE <<>>]

\* forEach visits every entry (deleting the visited entry is allowed in a Map),
\* cambio is set when one was deleted, and the callback gets the remaining keys.
limpiarInactivos(m, ahora) ==
    LET resto  == SelectSeq(m, LAMBDA e : ~Expirado(e.timestamp, ahora))
        cambio == Len(resto) # Len(m)
    IN  [mapa   |-> resto,
         llamar |-> cambio,
         lista  |-> IF cambio THEN MapKeys(resto) ELSE <<>>]

\* Age at instant ahora of the entry of userId, SinEvento when it has none.
Edad(m, userId, ahora) ==
    IF MapHas(m, userId)
    THEN ahora - (CHOOSE e \in Rango(m) : e.userId = userId).timestamp
    ELSE SinEvento

\* ------------------------------------------- INSERT handler of the typing feed
manejadorEscrituraSoloNuevos(m, userId, ahora) ==
    LET nuevo == MapSet(m, userId, ahora)
    IN  [mapa   |-> nuevo,
         llamar |-> ~MapHas(m, userId),
         lista  |-> IF MapHas(m, userId) THEN <<>> ELSE MapKeys(nuevo)]

\* usuariosEscritura.set(userId, Date.now()); callback(Array.from(keys()))
manejadorEscritura(m, userId, ahora) ==
    LET nuevo == MapSet(m, userId, ahora)
    IN  [mapa |-> nuevo, llamar |-> TRUE, lista |-> MapKeys(nuevo)]

\* ------------------------------ unsubscribe returned by suscribirseAEscritura
removeChannel(canales, campo) ==
    IF campo # Null THEN canales \ {campo} ELSE canales

desuscribirEscrituraSinClearInterval(campo, canales, s) ==
    [campo    |-> Null,
     canales  |-> removeChannel(canales, campo),
     removido |-> campo,
     sub      |-> [s EXCEPT !.mapa = <<>>, !.cancelada = TRUE]]

\* if (this.channelEscritura) { removeChannel; = null }; clearInterval; clear()
\* removido: the channel handed to supabase.removeChannel, Null when none is.
desuscribirEscritura(campo, canales, s) ==
    [campo    |-> Null,
     canales  |-> removeChannel(canales, campo),
     removido |-> campo,
     sub      |-> [s EXCEPT !.intervalo = FALSE, !.proximo = 0,
                            !.mapa = <<>>, !.cancelada = TRUE]]

\* ------------------------------------------------ message rows and answers
\* The placeholder author of the fallback record.
Desconocido == [email |-> "Desconocido", rol |-> "usuario"]

\* The row of table mensajes with this id, as payload.new carries it.
Fila(id) ==
    [id |-> id, contenido |-> <<"m", id>>,
     usuario_id |-> IF id % 2 = 1 THEN "u1" ELSE "u2",
     created_at |-> 1000 * id]

\* The usuarios!fk_usuario(email, rol) join of a row.
Autor(usuario_id) ==
    IF usuario_id = "u1" THEN [email |-> "u1@recetas.app", rol |-> "chef"]
    ELSE [email |-> "u2@recetas.app", rol |-> "usuario"]

NingunMensaje ==
    [id |-> 0, contenido |-> <<>>, usuario_id |-> "", created_at |-> 0,
     usuario |-> [email |-> "", rol |-> ""]]

\* What the enrichment select(...).eq('id', id).single() can answer.
TiposRespuesta == {"fila", "sinAutor", "error", "vacio", "excepcion"}

Mensaje(fila, autor) ==
    [id |-> fila.id, contenido |-> fila.contenido,
     usuario_id |-> fila.usuario_id, created_at |-> fila.created_at,
     usuario |-> autor]

\* ----------------------------------------- INSERT handler of the message feed
manejadorMensajeDescartaExcepcion(payloadNew, tipo) ==
    CASE tipo = "error"     -> [llamar |-> TRUE,
                                mensaje |-> Mensaje(payloadNew, Desconocido)]
      [] tipo = "excepcion" -> [llamar |-> FALSE, mensaje |-> NingunMensaje]
      [] tipo = "fila"      -> [llamar |-> TRUE,
                                mensaje |-> Mensaje(payloadNew,
                                                    Autor(payloadNew.usuario_id))]
      [] tipo = "sinAutor"  -> [llamar |-> TRUE,
                                mensaje |-> Mensaje(payloadNew, Desconocido)]
      [] OTHER              -> [llamar |-> FALSE, mensaje |-> NingunMensaje]

\* try { {data, error} = await select; if (error) fallback; if (data) formateado }
\* catch { fallback }
manejadorMensaje(payloadNew, tipo) ==
    CASE tipo = "error"     -> [llamar |-> TRUE,
                                mensaje |-> Mensaje(payloadNew, Desconocido)]
      [] tipo = "excepcion" -> [llamar |-> TRUE,
                                mensaje |-> Mensaje(payloadNew, Desconocido)]
      [] tipo = "fila"      -> [llamar |-> TRUE,
                                mensaje |-> Mensaje(Fila(payloadNew.id),
                                                    Autor(payloadNew.usuario_id))]
      [] tipo = "sinAutor"  -> [llamar |-> TRUE,
                                mensaje |-> Mensaje(Fila(payloadNew.id), Desconocido)]
      [] OTHER              -> [llamar |-> FALSE, mensaje |-> NingunMensaje]

\* ------------------------------------- useChat: callback of suscribirseAMensajes
alRecibirMensajeSinFiltro(prev, nuevoMensaje) == Append(prev, nuevoMensaje)

\* setMensajes(prev => prev.some(m => m.id === nuevo.id) ? prev : [...prev, nuevo])
alRecibirMensaje(prev, nuevoMensaje) ==
    IF \E j \in 1..Len(prev) : prev[j].id = nuevoMensaje.id
    THEN prev
    ELSE Append(prev, nuevoMensaje)

\* ------------------------------- unsubscribe returned by suscribirseAMensajes
desuscribirMensajesSinAnular(campo, canales) ==
    [campo |-> campo, canales |-> removeChannel(canales, campo),
     removido |-> campo]

\* if (this.channelMensajes) { removeChannel; this.channelMensajes = null }
desuscribirMensajes(campo, canales) ==
    [campo |-> Null, canales |-> removeChannel(canales, campo),
     removido |-> campo]

\* ------------------------------------------------------ String.prototype.trim
\* WhiteSpace and LineTerminator of ECMAScript, the characters trim() strips:
\* TAB, VT, FF, SP, NBSP, ZWNBSP, the space separators (Zs), LF, CR, LS, PS.
\* A character outside ASCII, and VT, is named by its code point ("U+00E9" is
\* the letter e with acute accent), so that one string is one character.
EspaciosEnBlanco ==
    {" ", "\t", "\n", "\r", "\f", "U+000B", "U+00A0", "U+1680", "U+FEFF",
     "U+2000", "U+2001", "U+2002", "U+2003", "U+2004", "U+2005", "U+2006",
     "U+2007", "U+2008", "U+2009", "U+200A", "U+2028", "U+2029", "U+202F",
     "U+205F", "U+3000"}

EsEspacio(c) == c \in EspaciosEnBlanco

RECURSIVE QuitaInicio(_)
QuitaInicio(s) ==
    IF s # <<>> /\ EsEspacio(Head(s)) THEN QuitaInicio(Tail(s)) ELSE s

RECURSIVE QuitaFin(_)
QuitaFin(s) ==
    IF s # <<>> /\ EsEspacio(s[Len(s)])
    THEN QuitaFin(SubSeq(s, 1, Len(s) - 1))
    ELSE s

trim(s) == QuitaFin(QuitaInicio(s))

\* ------------------------------------------------ ChatUseCase: outbound calls
\* What auth.getUser() and the insert can do in one call.
RespuestasBackend == {"ok", "sinUsuario", "error", "excepcion"}
\* What auth.getUser() alone can do: a user, no user, or throw.
RespuestasUsuario == {"ok", "sinUsuario", "excepcion"}
\* What the insert alone can do: succeed, answer an error, or throw.
RespuestasInsert == {"ok", "error", "excepcion"}

ResultadoOk == [success |-> TRUE, error |-> ""]
ResultadoFallo(mensaje) == [success |-> FALSE, error |-> mensaje]

\* enviarEventoEscritura(escribiendo) up to the answer of getUser: the insert
\* is issued for escribiendo = true with a user; without a user it returns, and
\* an exception is caught.
enviarEventoEscrituraUsuario(escribiendo, resp) ==
    [insertar |-> escribiendo /\ resp = "ok", rechaza |-> FALSE]

enviarEventoEscrituraAvisaFin(escribiendo, resp) ==
    [inserta |-> resp = "ok", rechaza |-> FALSE]

\* enviarEventoEscritura(escribiendo): a row is inserted only for escribiendo
\* = true, with a user, when the insert succeeds; the whole body is in a try
\* whose catch only logs, so the promise never rejects.
enviarEventoEscritura(escribiendo, resp) ==
    [inserta |-> escribiendo /\ resp = "ok", rechaza |-> FALSE]

enviarMensajeUCSinComprobarUsuario(contenido, resp) ==
    CASE resp \in {"ok", "sinUsuario"} ->
            [resultado |-> ResultadoOk, inserta |-> TRUE,
             insertaIndicador |-> enviarEventoEscritura(FALSE, resp).inserta,
             rechaza |-> FALSE]
      [] OTHER ->
            [resultado |-> ResultadoFallo("error.message"),
             inserta |-> FALSE, insertaIndicador |-> FALSE,
             rechaza |-> FALSE]

\* ChatUseCase.enviarMensaje(contenido): getUser, enviarEventoEscritura(false),
\* insert; the catch turns an error value (rethrown) and a thrown exception
\* into a failure result, so the promise never rejects.
enviarMensajeUC(contenido, resp) ==
    CASE resp = "sinUsuario" ->
            [resultado |-> ResultadoFallo("Usuario no autenticado"),
             inserta |-> FALSE, insertaIndicador |-> FALSE,
             rechaza |-> FALSE]
      [] resp = "ok" ->
            [resultado |-> ResultadoOk, inserta |-> TRUE,
             insertaIndicador |-> enviarEventoEscritura(FALSE, resp).inserta,
             rechaza |-> FALSE]
      [] OTHER ->
            [resultado |-> ResultadoFallo("error.message"),
             inserta |-> FALSE, insertaIndicador |-> FALSE,
             rechaza |-> FALSE]

\* ------------------------------------------- ChatUseCase: obtenerMensajes
Reverse(s) == [j \in 1..Len(s) |-> s[Len(s) + 1 - j]]

\* A row of the select with its usuarios!fk_usuario(email, rol) join.
FilaConAutor(id) == Mensaje(Fila(id), Autor(Fila(id).usuario_id))

\* Sequences of distinct elements of S.
SinRepetir(S) ==
    UNION {{s \in [1..n -> S] : \A a, b \in 1..n : s[a] = s[b] => a = b} :
              n \in 0..Cardinality(S)}

\* What the select ... order(created_at desc).limit(limite) can answer: rows
\* (ids, in the order the backend returns them, at most limite), data null with
\* no error, an error value, or a thrown exception.
RespuestasConsulta(limite) ==
    {[tipo |-> "filas", filas |-> f] :
        f \in {g \in SinRepetir(MsgIds) : Len(g) <= limite}}
    \cup {[tipo |-> t, filas |-> <<>>] : t \in {"nulo", "error", "excepcion"}}

obtenerMensajesSinReverse(respuesta) ==
    IF respuesta.tipo \in {"error", "excepcion"}
    THEN [mensajes |-> <<>>, rechaza |-> FALSE]
    ELSE [mensajes |-> [j \in 1..Len(respuesta.filas) |->
                           FilaConAutor(respuesta.filas[j])],
          rechaza |-> FALSE]

\* try { if (error) throw; return (data || []).map(...).reverse() }
\* catch { return [] }
obtenerMensajes(respuesta) ==
    IF respuesta.tipo \in {"error", "excepcion"}
    THEN [mensajes |-> <<>>, rechaza |-> FALSE]
    ELSE LET data == IF respuesta.tipo = "nulo" THEN <<>> ELSE respuesta.filas
             mensajesFormateados ==
                 [j \in 1..Len(data) |-> FilaConAutor(data[j])]
         IN  [mensajes |-> Reverse(mensajesFormateados), rechaza |-> FALSE]

\* ------------------------------------------- ChatUseCase: eliminarMensaje
\* What the delete().eq('id', mensajeId) can do.
RespuestasBorrado == {"ok", "error", "excepcion"}

eliminarMensajeUCSinCatch(mensajeId, resp) ==
    CASE resp = "ok" -> [resultado |-> ResultadoOk, rechaza |-> FALSE]
      [] OTHER       -> [resultado |-> ResultadoFallo("error.message"),
                         rechaza |-> TRUE]

\* try { if (error) throw error; return {success: true} }
\* catch { return {success: false, error: error.message} }
eliminarMensajeUC(mensajeId, resp) ==
    CASE resp = "ok" -> [resultado |-> ResultadoOk, rechaza |-> FALSE]
      [] OTHER       -> [resultado |-> ResultadoFallo("error.message"),
                         rechaza |-> FALSE]

\* ---------------------------------------------------- useChat: eliminarMensaje
alEliminarSinMirarResultado(prev, mensajeId, resultado) ==
    SelectSeq(prev, LAMBDA m : m.id # mensajeId)

\* if (resultado.success) setMensajes(prev => prev.filter(m => m.id !== mensajeId))
alEliminar(prev, mensajeId, resultado) ==
    IF resultado.success
    THEN SelectSeq(prev, LAMBDA m : m.id # mensajeId)
    ELSE prev

\* ------------------------------------------------------ useChat: enviarMensaje
contenidoVacioSinTrim(contenido) == contenido = <<>>

\* if (!contenido.trim())
contenidoVacio(contenido) == trim(contenido) = <<>>

ErrorVacio == ResultadoFallo("El mensaje está vacío")

finEnviarConEcoLocal(h, contenido, resultado) ==
    [mensajes   |-> IF resultado.success
                    THEN Append(h.mensajes,
                                [NingunMensaje EXCEPT !.contenido = contenido])
                    ELSE h.mensajes,
     enviando   |-> FALSE,
     inputTexto |-> <<>>]

\* After the await: detenerEscritura(); setEnviando(false); setInputTexto("");
\* there is no setMensajes.
finEnviar(h, contenido, resultado) ==
    [mensajes |-> h.mensajes, enviando |-> FALSE, inputTexto |-> <<>>]

\* ------------------------------------------------- useChat: the input effect
efectoInputSinTrim(texto) == IF texto # <<>> THEN "iniciar" ELSE "detener"

\* if (inputTextoRef.current.trim()) iniciarEscritura() else detenerEscritura()
efectoInput(texto) == IF trim(texto) # <<>> THEN "iniciar" ELSE "detener"

\* ------------------------------------------- useChat: the debounce timer ref
\* t.actual: the timer the ref names is pending; t.sueltos: pending timers no
\* ref names any more.
clearTimeout(ref, t) ==
    IF ref # "null" THEN [t EXCEPT !.actual = FALSE] ELSE t

\* A new timer is set and the ref is pointed at it; the timer the ref named,
\* if still pending, stays pending without a name.
setTimeout(t) ==
    [actual |-> TRUE, sueltos |-> t.sueltos + IF t.actual THEN 1 ELSE 0]

iniciarEscrituraSinClearTimeout(ref, t) ==
    [ref |-> "handle", t |-> setTimeout(t)]

\* if (ref.current) clearTimeout(ref.current); ref.current = setTimeout(..., 1500)
iniciarEscritura(ref, t) ==
    [ref |-> "handle", t |-> setTimeout(clearTimeout(ref, t))]

\* if (ref.current) { clearTimeout(ref.current); ref.current = null }
detenerEscritura(ref, t) ==
    [ref |-> "null", t |-> clearTimeout(ref, t)]

\* ------------------------------------------------------------ AuthUseCase
\* null of Usuario | null and of a missing AsyncStorage item.
NullUsuario == "null"
\* The account that logs in.
Cuenta == "u1"
\* What a call to Supabase can do: answer, or fail (error value or exception).
RespuestasAuth == {"ok", "error"}

\* rol: "chef" | "usuario"
Roles == {"chef", "usuario"}
\* No row of the account in table usuarios.
SinPerfil == "ninguno"
SinCuenta == [estado |-> "ninguna", rol |-> "", porEmail |-> FALSE]

\* obtenerUsuarioActual() up to the answer of supabase.auth.getUser(): the
\* user of the session the client holds then; without one it returns null.
obtenerUsuarioActualUsuario(ses, resp) ==
    IF resp = "ok" THEN ses ELSE NullUsuario

\* obtenerUsuarioActual() from the answer of the select of the user's row with
\* .single(): the row; no row or an error -> catch -> null.
obtenerUsuarioActualPerfil(user, perf, resp) ==
    IF perf # SinPerfil /\ resp = "ok" THEN user ELSE NullUsuario

\* crearPerfil: upsert of {id, email, rol} on conflict id; the role the row
\* has afterwards.
crearPerfil(perf, rol, resp) == IF resp = "ok" THEN rol ELSE perf

\* What signUp can answer: the account needs the email confirmed, a session
\* at once, or an error.
RespuestasRegistro == {"confirmar", "sesion", "error"}

\* AuthUseCase.registrar up to the answer of signUp: without a session it
\* returns needsConfirmation, with one it goes on to the upsert.
registrarSignUp(resp) ==
    [termina           |-> resp # "sesion",
     success           |-> resp = "confirmar",
     needsConfirmation |-> resp = "confirmar",
     creada            |-> resp # "error",
     conSesion         |-> resp = "sesion"]

\* AuthUseCase.registrar from the answer of its upsert into usuarios.
registrarUpsert(perf, rol, resp) ==
    [success |-> resp = "ok", needsConfirmation |-> FALSE,
     perfil  |-> crearPerfil(perf, rol, resp)]

\* useAuth.registrar after authUseCase.registrar: the role and the email are
\* kept under "pending_user_role" and "pending_user_email" when the
\* registration succeeded and needs the confirmation.
registrarGuardaPendiente(resultado) ==
    resultado.success /\ resultado.needsConfirmation

\* StorageService.limpiarDatosSesion(): both session items are removed.
limpiarDatosSesion == [recordar |-> "null", guardado |-> NullUsuario]

\* verificarSesionPersistente after getItem(SESSION_REMEMBER_KEY):
\* recordarSesion === "false" -> null, and verificarSesionInicial goes on to
\* obtenerUsuarioActual(); else getSession().
verificarSesionPersistenteRecordar(recordar) ==
    IF recordar = "false" THEN "usuario2" ELSE "sesion"

\* What getSession() can do: answer with the session the client holds, answer
\* with an error and no session, or throw.
RespuestasSesion == {"ok", "error", "excepcion"}

\* verificarSesionPersistente after getSession(): a session -> the current
\* user is fetched; no session -> limpiarDatosSesion(); a throw -> catch ->
\* null, and verificarSesionInicial goes on to obtenerUsuarioActual().
verificarSesionPersistenteSesion(ses, resp) ==
    IF resp = "excepcion" THEN "usuario2"
    ELSE IF resp = "ok" /\ ses # NullUsuario THEN "usuario1"
    ELSE "limpiar"

\* What signOut() of a client does to the listeners: with a session it emits
\* the change; without one it emits it or not.
AvisosCierre(ses) == IF ses # NullUsuario THEN {TRUE} ELSE BOOLEAN

\* As rolDelPerfil, the role under "pending_user_role" ignored.
rolDelPerfilPorDefecto(rolGuardado) == "usuario"

\* The listener of onAuthStateChange, with a session and no current user:
\* let rolPendiente = "usuario"; the role under "pending_user_role" replaces
\* it when it is 'chef' or 'usuario'.
rolDelPerfil(rolGuardado) ==
    IF rolGuardado \in Roles THEN rolGuardado ELSE "usuario"

\* The callback of useAuth up to its await: setUsuario(user);
\* setCargando(false); with a user it reads SESSION_REMEMBER_KEY.
alCambiarAuth(user) ==
    [usuario |-> user, cargando |-> FALSE, lee |-> user # NullUsuario]

\* The callback of useAuth after getItem(SESSION_REMEMBER_KEY): the user is
\* stored under SESSION_USER_KEY unless the item reads "false".
alCambiarAuthGuarda(recordar) == recordar # "false"

\* useAuth.crearPerfilConRol after its two getItem: it goes on to crearPerfil
\* with a pending role, a pending email and a user in the state.
crearPerfilConRolProcede(rolGuardado, emailGuardado, usr) ==
    rolGuardado # "null" /\ emailGuardado /\ usr # NullUsuario

\* The calls in flight, each with what it holds in its local variables.
SinVerificacion == [fase |-> "no", user |-> NullUsuario]
SinManejo ==
    [fase |-> "no", user |-> NullUsuario, rol |-> "null", sinPerfil |-> FALSE]
SinRetrollamadas == [recordar |-> 0, guardar |-> 0]
SinLogin == [fase |-> "no", recordar |-> FALSE, user |-> NullUsuario]
SinRegistro == [fase |-> "no", rol |-> ""]
SinPerfilando ==
    [fase |-> "no", usr |-> NullUsuario, rol |-> "null", email |-> FALSE]

\* ---------------------------------------------------------------- history
SinPaso ==
    [op |-> "inicio", sub |-> 0, user |-> "", cb |-> FALSE,
     lista |-> <<>>, antes |-> <<>>, removido |-> Null, enVivo |-> FALSE,
     repetida |-> FALSE, sinOtra |-> FALSE,
     idMsg |-> 0, tipo |-> "", mensaje |-> NingunMensaje,
     mensajesAntes |-> <<>>,
     contenido |-> <<>>, resultado |-> ResultadoFallo(""),
     enCurso |-> FALSE, insertoMensaje |-> FALSE, insertoIndicador |-> FALSE,
     resp |-> "", rechaza |-> FALSE, evento |-> FALSE, filas |-> <<>>,
     mapaAntes |-> <<>>, alLimite |-> FALSE, empujados |-> {}, guardoUsuario |-> FALSE,
     escriturasAntes |-> [usuario |-> 0, insert |-> 0],
     conSesion |-> FALSE, sinPerfil |-> FALSE, perfilAntes |-> "",
     rolAntes |-> "", entregas |-> <<>>,
     timerAntes |-> FALSE, indicadoresAntes |-> 0, tablaAntes |-> <<>>]

SubENueva ==
    [creada |-> FALSE, intervalo |-> FALSE, proximo |-> 0, mapa |-> <<>>,
     cancelada |-> FALSE]

SubMNueva == [creada |-> FALSE, cancelada |-> FALSE]

\* The scenario "u1's events are received at 0, 1000 and 2000 ms and no other".
EscenarioRoto == 0 - 1
AvanceEscenario(e, i, u, t) ==
    IF i # 1 \/ u # "u1" THEN e
    ELSE IF e \in 0..2 /\ t = e * 1000 THEN e + 1
    ELSE EscenarioRoto

\* ------------------------------------------------------------------- Init
InitE ==
    /\ now = 0
    /\ channelEscritura = Null
    /\ canalesE = {}
    /\ subsE = [i \in Subs |-> SubENueva]
    /\ usuariosEscribiendo = <<>>
    /\ ultimoEvento = [i \in Subs |-> [u \in Usuarios |-> SinEvento]]
    /\ escenario = 0
    /\ otraDesdeE = [i \in Subs |-> FALSE]
    /\ barridoTardio = [i \in Subs |-> FALSE]

InitM ==
    /\ channelMensajes = Null
    /\ canalesM = {}
    /\ subsM = [i \in Subs |-> SubMNueva]
    /\ enVuelo = [i \in Subs |-> [id \in MsgIds |-> 0]]
    /\ mensajes = <<>>
    /\ otraDesdeM = [i \in Subs |-> FALSE]
    /\ entregados = 0

\* The state after the first render and the first run of the input effect.
InitH ==
    /\ inputTexto = <<>>
    /\ typingTimeoutRef = "null"
    /\ temporizadores = [actual |-> FALSE, sueltos |-> 0]
    /\ enviando = FALSE
    /\ envios = <<>>
    /\ tablaMensajes = <<>>
    /\ indicadores = 0
    /\ escrituras = [usuario |-> 0, insert |-> 0]

\* The app installed and never opened.
InitA ==
    /\ sesion = NullUsuario
    /\ recordarGuardado = "null"
    /\ usuarioGuardado = NullUsuario
    /\ usuario = NullUsuario
    /\ cargandoAuth = TRUE
    /\ montado = FALSE
    /\ verificacion = SinVerificacion
    /\ eventosAuth = <<>>
    /\ manejando = SinManejo
    /\ retrollamadas = SinRetrollamadas
    /\ login = SinLogin
    /\ logout = "no"
    /\ registro = SinRegistro
    /\ perfilando = SinPerfilando
    /\ histA = [ultimoLogin |-> "ninguno", cerrada |-> FALSE]
    /\ cuenta = SinCuenta
    /\ perfil = SinPerfil
    /\ rolPendiente = "null"
    /\ emailPendiente = FALSE
    /\ llamadas = 0

InitL ==
    /\ cargando = TRUE
    /\ cargas = 0
    /\ empujados = {}

Init ==
    /\ InitE
    /\ InitM
    /\ InitH
    /\ InitL
    /\ InitA
    /\ paso = SinPaso

\* -------------------------------------------- actions: typing subscription
\* The closures are numbered in the order of the subscribe calls.
SiguienteSubE(i) ==
    /\ ~subsE[i].creada
    /\ \A j \in Subs : j < i => subsE[j].creada

\* suscribirseAEscritura(callback): a new channel, a new map, a new interval.
SuscribirseAEscritura(i) ==
    /\ SiguienteSubE(i)
    /\ channelEscritura' = i
    /\ canalesE' = canalesE \cup {i}
    /\ subsE' = [subsE EXCEPT ![i] =
                    [creada |-> TRUE, intervalo |-> TRUE,
                     proximo |-> now + IntervaloLimpiezaMs, mapa |-> <<>>,
                     cancelada |-> FALSE]]
    /\ otraDesdeE' = [j \in Subs |-> subsE[j].creada]
    /\ paso' = [SinPaso EXCEPT !.op = "suscribirE", !.sub = i]
    /\ UNCHANGED <<now, usuariosEscribiendo, ultimoEvento, escenario,
                   barridoTardio, varsM, varsH, varsL, varsA>>

\* The interval of closure i fires, at the instant it is due or after it:
\* limpiarInactivos() reads the clock then, and the timer is armed again for
\* one period after this run.
Limpieza(i) ==
    /\ subsE[i].intervalo
    /\ subsE[i].proximo <= now
    /\ barridoTardio' =
          [barridoTardio EXCEPT ![i] = @ \/ subsE[i].proximo < now]
    /\ LET r == limpiarInactivos(subsE[i].mapa, now)
       IN  /\ subsE' = [subsE EXCEPT ![i].mapa = r.mapa,
                                     ![i].proximo = now + IntervaloLimpiezaMs]
           /\ usuariosEscribiendo' =
                 IF r.llamar THEN r.lista ELSE usuariosEscribiendo
           /\ paso' = [SinPaso EXCEPT !.op = "limpieza", !.sub = i,
                          !.cb = r.llamar, !.lista = r.lista,
                          !.antes = MapKeys(subsE[i].mapa),
                          !.mapaAntes = subsE[i].mapa]
    /\ UNCHANGED <<now, channelEscritura, canalesE, ultimoEvento, escenario,
                   otraDesdeE, varsM, varsH,
                   varsL, varsA>>

\* The handler of closure i runs for an INSERT of user u.
Manejar(i, u, enVivo) ==
    LET r == manejadorEscritura(subsE[i].mapa, u, now)
    IN  /\ subsE' = [subsE EXCEPT ![i].mapa = r.mapa]
        /\ usuariosEscribiendo' =
              IF r.llamar THEN r.lista ELSE usuariosEscribiendo
        /\ ultimoEvento' = IF subsE[i].intervalo
                           THEN [ultimoEvento EXCEPT ![i][u] = now]
                           ELSE ultimoEvento
        /\ escenario' = AvanceEscenario(escenario, i, u, now)
        /\ paso' = [SinPaso EXCEPT !.op = "insert", !.sub = i, !.user = u,
                       !.cb = r.llamar, !.lista = r.lista,
                       !.antes = MapKeys(subsE[i].mapa),
                       !.alLimite = Edad(subsE[i].mapa, u, now) = InactividadMs,
                       !.enVivo = enVivo]
        /\ UNCHANGED <<now, channelEscritura, canalesE, otraDesdeE,
                       barridoTardio, varsM, varsH, varsL, varsA>>

\* The feed delivers an INSERT on a channel the client still holds.
EntregaEscritura(i, u) ==
    /\ subsE[i].creada
    /\ i \in canalesE
    /\ Manejar(i, u, TRUE)

\* An INSERT handed directly to the handler of a closure whose channel is gone.
EntregaDirecta(i, u) ==
    /\ subsE[i].creada
    /\ i \notin canalesE
    /\ Manejar(i, u, FALSE)

\* The function returned by suscribirseAEscritura call i.
DesuscribirEscritura(i) ==
    /\ subsE[i].creada
    /\ LET r == desuscribirEscritura(channelEscritura, canalesE, subsE[i])
       IN  /\ channelEscritura' = r.campo
           /\ canalesE' = r.canales
           /\ subsE' = [subsE EXCEPT ![i] = r.sub]
           /\ paso' = [SinPaso EXCEPT !.op = "desuscribirE", !.sub = i,
                          !.removido = r.removido,
                          !.antes = MapKeys(subsE[i].mapa),
                          !.repetida = subsE[i].cancelada,
                          !.sinOtra = ~otraDesdeE[i]]
    /\ otraDesdeE' = [otraDesdeE EXCEPT ![i] = FALSE]
    /\ ultimoEvento' = [ultimoEvento EXCEPT ![i] = [u \in Usuarios |-> SinEvento]]
    /\ barridoTardio' = [barridoTardio EXCEPT ![i] = FALSE]
    /\ UNCHANGED <<now, usuariosEscribiendo, escenario,
                   varsM, varsH, varsL, varsA>>

\* Time passes: the clock shows a later instant, whatever timers are due.
Tic(t) ==
    /\ \E i \in Subs : subsE[i].creada
    /\ t > now
    /\ now' = t
    /\ paso' = [SinPaso EXCEPT !.op = "tic"]
    /\ UNCHANGED <<channelEscritura, canalesE, subsE, usuariosEscribiendo,
                   ultimoEvento, escenario, otraDesdeE, barridoTardio,
                   varsM, varsH, varsL, varsA>>

\* ------------------------------------------- actions: message subscription
SiguienteSubM(i) ==
    /\ ~subsM[i].creada
    /\ \A j \in Subs : j < i => subsM[j].creada

\* suscribirseAMensajes(callback): a new channel with the async INSERT handler.
SuscribirseAMensajes(i) ==
    /\ SiguienteSubM(i)
    /\ channelMensajes' = i
    /\ canalesM' = canalesM \cup {i}
    /\ subsM' = [subsM EXCEPT ![i] = [creada |-> TRUE, cancelada |-> FALSE]]
    /\ otraDesdeM' = [j \in Subs |-> subsM[j].creada]
    /\ paso' = [SinPaso EXCEPT !.op = "suscribirM", !.sub = i]
    /\ UNCHANGED <<enVuelo, mensajes, entregados, varsE, varsH,
                   varsL, varsA>>

\* The feed delivers the INSERT of row id: the handler starts and awaits its
\* fetch.  Rows are numbered in the order the feed first announces them.
EntregaMensaje(i, id) ==
    /\ subsM[i].creada
    /\ i \in canalesM
    /\ enVuelo[i][id] < MaxEnVuelo
    /\ id <= entregados + 1
    /\ enVuelo' = [enVuelo EXCEPT ![i][id] = @ + 1]
    /\ entregados' = IF id > entregados THEN id ELSE entregados
    /\ paso' = [SinPaso EXCEPT !.op = "entregaM", !.sub = i, !.idMsg = id]
    /\ UNCHANGED <<channelMensajes, canalesM, subsM, mensajes, otraDesdeM, varsE, varsH,
                   varsL, varsA>>

\* The enrichment fetch of one handler run ends; the handler finishes.
ResuelveFetch(i, id, tipo) ==
    /\ enVuelo[i][id] > 0
    /\ enVuelo' = [enVuelo EXCEPT ![i][id] = @ - 1]
    /\ LET r == manejadorMensaje(Fila(id), tipo)
       IN  /\ mensajes' = IF r.llamar
                          THEN alRecibirMensaje(mensajes, r.mensaje)
                          ELSE mensajes
           /\ paso' = [SinPaso EXCEPT !.op = "fetch", !.sub = i, !.idMsg = id,
                          !.tipo = tipo, !.cb = r.llamar,
                          !.mensaje = r.mensaje, !.mensajesAntes = mensajes]
           /\ empujados' = IF r.llamar /\ cargas > 0
                            THEN empujados \cup {r.mensaje.id}
                            ELSE empujados
    /\ UNCHANGED <<channelMensajes, canalesM, subsM, otraDesdeM, entregados,
                   cargando, cargas, varsE, varsH, varsA>>

\* The function returned by suscribirseAMensajes call i.
DesuscribirMensajes(i) ==
    /\ subsM[i].creada
    /\ LET r == desuscribirMensajes(channelMensajes, canalesM)
       IN  /\ channelMensajes' = r.campo
           /\ canalesM' = r.canales
           /\ paso' = [SinPaso EXCEPT !.op = "desuscribirM", !.sub = i,
                          !.removido = r.removido,
                          !.repetida = subsM[i].cancelada,
                          !.sinOtra = ~otraDesdeM[i]]
    /\ subsM' = [subsM EXCEPT ![i].cancelada = TRUE]
    /\ otraDesdeM' = [otraDesdeM EXCEPT ![i] = FALSE]
    /\ UNCHANGED <<enVuelo, mensajes, entregados, varsE, varsH,
                   varsL, varsA>>

\* ---------------------------------------------------- actions: useChat input
Remover(s, k) == [j \in 1..(Len(s) - 1) |-> IF j < k THEN s[j] ELSE s[j + 1]]

\* setInputTexto(texto) with a new text: the input effect runs.  For a text
\* with a character that is not white space iniciarEscritura() calls
\* enviarEventoEscritura(true) without awaiting it and re-arms the timer; else
\* detenerEscritura() runs.
SetInputTexto(texto) ==
    /\ texto # inputTexto
    /\ inputTexto' = texto
    /\ IF efectoInput(texto) = "iniciar"
       THEN LET r == iniciarEscritura(typingTimeoutRef, temporizadores)
            IN  /\ escrituras.usuario + escrituras.insert + indicadores
                      < MaxIndicadores
                /\ escrituras' = [escrituras EXCEPT !.usuario = @ + 1]
                /\ typingTimeoutRef' = r.ref
                /\ temporizadores' = r.t
                /\ paso' = [SinPaso EXCEPT !.op = "input", !.contenido = texto,
                               !.evento = TRUE,
                               !.timerAntes = temporizadores.actual,
                               !.indicadoresAntes = indicadores,
                               !.escriturasAntes = escrituras]
       ELSE LET r == detenerEscritura(typingTimeoutRef, temporizadores)
            IN  /\ escrituras' = escrituras
                /\ typingTimeoutRef' = r.ref
                /\ temporizadores' = r.t
                /\ paso' = [SinPaso EXCEPT !.op = "input", !.contenido = texto,
                               !.timerAntes = temporizadores.actual,
                               !.indicadoresAntes = indicadores,
                               !.escriturasAntes = escrituras]
    /\ UNCHANGED <<enviando, envios, tablaMensajes, indicadores, varsE, varsM,
                   varsL, varsA>>

\* The getUser of one enviarEventoEscritura(true) call answers: with a user
\* the insert into indicadores_escritura is issued, else the call ends.
EventoEscrituraUsuario(resp) ==
    /\ escrituras.usuario > 0
    /\ LET e == enviarEventoEscrituraUsuario(TRUE, resp)
       IN  /\ escrituras' =
                 [usuario |-> escrituras.usuario - 1,
                  insert  |-> escrituras.insert + IF e.insertar THEN 1 ELSE 0]
           /\ paso' = [SinPaso EXCEPT !.op = "escrituraUsuario",
                          !.resp = resp, !.rechaza = e.rechaza,
                          !.evento = e.insertar,
                          !.indicadoresAntes = indicadores,
                          !.escriturasAntes = escrituras]
    /\ UNCHANGED <<inputTexto, typingTimeoutRef, temporizadores, enviando,
                   envios, tablaMensajes, indicadores, varsE, varsM,
                   varsL, varsA>>

\* The insert of one enviarEventoEscritura(true) call answers and the call
\* ends: the row is in the table when the insert succeeded.
EventoEscrituraInsert(resp) ==
    /\ escrituras.insert > 0
    /\ LET e == enviarEventoEscritura(TRUE, resp)
       IN  /\ e.inserta => indicadores < MaxIndicadores
           /\ indicadores' = IF e.inserta THEN indicadores + 1
                             ELSE indicadores
           /\ paso' = [SinPaso EXCEPT !.op = "escrituraInsert",
                          !.resp = resp, !.rechaza = e.rechaza,
                          !.insertoIndicador = e.inserta,
                          !.indicadoresAntes = indicadores,
                          !.escriturasAntes = escrituras]
    /\ escrituras' = [escrituras EXCEPT !.insert = @ - 1]
    /\ UNCHANGED <<inputTexto, typingTimeoutRef, temporizadores, enviando,
                   envios, tablaMensajes, varsE, varsM, varsL, varsA>>

\* The 1500 ms timer lapses: its callback is empty and the ref keeps the handle.
VenceTimeout ==
    /\ temporizadores.actual
    /\ temporizadores' = [temporizadores EXCEPT !.actual = FALSE]
    /\ paso' = [SinPaso EXCEPT !.op = "timeout"]
    /\ UNCHANGED <<inputTexto, typingTimeoutRef, enviando, envios,
                   tablaMensajes, indicadores, escrituras, varsE, varsM,
                   varsL, varsA>>

\* useChat.enviarMensaje(contenido) up to its await.
EnviarMensajeInicio(contenido) ==
    /\ Len(envios) + Len(tablaMensajes) < MaxEnvios
    /\ IF contenidoVacio(contenido)
       THEN /\ paso' = [SinPaso EXCEPT !.op = "enviarInicio",
                           !.contenido = contenido, !.resultado = ErrorVacio,
                           !.mensajesAntes = mensajes]
            /\ UNCHANGED <<enviando, envios>>
       ELSE /\ enviando' = TRUE
            /\ envios' = Append(envios, contenido)
            /\ paso' = [SinPaso EXCEPT !.op = "enviarInicio",
                           !.contenido = contenido, !.enCurso = TRUE,
                           !.mensajesAntes = mensajes]
    /\ UNCHANGED <<inputTexto, typingTimeoutRef, temporizadores,
                   tablaMensajes, indicadores, escrituras, varsE, varsM,
                   varsL, varsA>>

\* ChatUseCase.enviarMensaje resolves and useChat.enviarMensaje finishes:
\* detenerEscritura(), setEnviando(false), setInputTexto("").
EnviarMensajeFin(k, resp) ==
    /\ k \in 1..Len(envios)
    /\ LET u == enviarMensajeUC(envios[k], resp)
           r == detenerEscritura(typingTimeoutRef, temporizadores)
           f == finEnviar([mensajes |-> mensajes, enviando |-> enviando,
                           inputTexto |-> inputTexto], envios[k], u.resultado)
       IN  /\ tablaMensajes' = IF u.inserta
                               THEN Append(tablaMensajes, envios[k])
                               ELSE tablaMensajes
           /\ u.insertaIndicador => indicadores < MaxIndicadores
           /\ indicadores' = IF u.insertaIndicador THEN indicadores + 1
                             ELSE indicadores
           /\ typingTimeoutRef' = r.ref
           /\ temporizadores' = r.t
           /\ mensajes' = f.mensajes
           /\ enviando' = f.enviando
           /\ inputTexto' = f.inputTexto
           /\ paso' = [SinPaso EXCEPT !.op = "enviarFin",
                          !.contenido = envios[k], !.resultado = u.resultado,
                          !.insertoMensaje = u.inserta,
                          !.insertoIndicador = u.insertaIndicador,
                          !.resp = resp, !.rechaza = u.rechaza,
                          !.mensajesAntes = mensajes,
                          !.timerAntes = temporizadores.actual,
                          !.indicadoresAntes = indicadores,
                          !.escriturasAntes = escrituras,
                          !.tablaAntes = tablaMensajes]
    /\ envios' = Remover(envios, k)
    /\ UNCHANGED <<escrituras, varsE, channelMensajes, canalesM, subsM, enVuelo,
                   otraDesdeM, entregados, varsL, varsA>>

\* ------------------------------------------- actions: useChat message list
\* cargarMensajes() up to its await: setCargando(true), obtenerMensajes().
CargarMensajesInicio ==
    /\ cargas < MaxCargas
    /\ cargando' = TRUE
    /\ cargas' = cargas + 1
    /\ empujados' = IF cargas = 0 THEN {} ELSE empujados
    /\ paso' = [SinPaso EXCEPT !.op = "cargarInicio", !.mensajesAntes = mensajes]
    /\ UNCHANGED <<varsE, varsM, varsH, varsA>>

\* obtenerMensajes resolves: setMensajes(mensajesObtenidos), setCargando(false).
CargarMensajesFin(respuesta) ==
    /\ cargas > 0
    /\ LET r == obtenerMensajes(respuesta)
       IN  /\ mensajes' = r.mensajes
           /\ paso' = [SinPaso EXCEPT !.op = "cargarFin",
                          !.tipo = respuesta.tipo, !.filas = respuesta.filas,
                          !.rechaza = r.rechaza, !.mensajesAntes = mensajes,
                          !.empujados = empujados]
    /\ cargando' = FALSE
    /\ cargas' = cargas - 1
    /\ empujados' = IF cargas = 1 THEN {} ELSE empujados
    /\ UNCHANGED <<varsE, channelMensajes, canalesM, subsM, enVuelo,
                   otraDesdeM, entregados, varsH, varsA>>

\* useChat.eliminarMensaje(mensajeId), at the moment its await resolves (the
\* call changes nothing before that, and the update is applied to the list of
\* that moment).
EliminarMensaje(mensajeId, resp) ==
    /\ LET u == eliminarMensajeUC(mensajeId, resp)
       IN  /\ mensajes' = alEliminar(mensajes, mensajeId, u.resultado)
           /\ paso' = [SinPaso EXCEPT !.op = "eliminar", !.idMsg = mensajeId,
                          !.resp = resp, !.resultado = u.resultado,
                          !.rechaza = u.rechaza, !.mensajesAntes = mensajes]
    /\ UNCHANGED <<varsE, channelMensajes, canalesM, subsM, enVuelo,
                   otraDesdeM, entregados, varsH, varsL, varsA>>

\* ------------------------------------------------------- actions: useAuth
\* The history names the steps of the listener and the writes of the user
\* under SESSION_USER_KEY; every other step is recorded as "useAuth".
\* Auth state changes emitted whose handling, to the end of the callback, is
\* not over.
EnTramite ==
    Len(eventosAuth) + (IF manejando.fase # "no" THEN 1 ELSE 0)
       + retrollamadas.recordar + retrollamadas.guardar

\* The app is opened: useAuth mounts with usuario null and cargando true, its
\* effect calls verificarSesionInicial, which runs up to its first await, and
\* registers the listener.  The client may emit the stored session to a new
\* listener.
AbrirApp(conEventoInicial) ==
    /\ ~montado
    /\ montado' = TRUE
    /\ usuario' = NullUsuario
    /\ cargandoAuth' = TRUE
    /\ verificacion' = [SinVerificacion EXCEPT !.fase = "recordar"]
    /\ eventosAuth' = IF conEventoInicial
                      THEN <<[conSesion |-> sesion # NullUsuario]>>
                      ELSE <<>>
    /\ paso' = [SinPaso EXCEPT !.op = "useAuth"]
    /\ UNCHANGED <<sesion, recordarGuardado, usuarioGuardado, manejando,
                   retrollamadas, login, logout, registro, perfilando, histA,
                   cuenta, perfil, rolPendiente, emailPendiente, llamadas,
                   varsE, varsM, varsH, varsL>>

\* verificarSesionInicial: getItem(SESSION_REMEMBER_KEY) of
\* verificarSesionPersistente answers.
VerificarSesionInicialRecordar ==
    /\ verificacion.fase = "recordar"
    /\ verificacion' =
          [verificacion EXCEPT
              !.fase = verificarSesionPersistenteRecordar(recordarGuardado)]
    /\ paso' = [SinPaso EXCEPT !.op = "useAuth"]
    /\ UNCHANGED <<sesion, recordarGuardado, usuarioGuardado, usuario,
                   cargandoAuth, montado, eventosAuth, manejando,
                   retrollamadas, login, logout, registro, perfilando, histA,
                   cuenta, perfil, rolPendiente, emailPendiente, llamadas,
                   varsE, varsM, varsH, varsL>>

\* verificarSesionInicial: getSession() of verificarSesionPersistente answers
\* or throws.
VerificarSesionInicialSesion(resp) ==
    /\ verificacion.fase = "sesion"
    /\ verificacion' =
          [verificacion EXCEPT
              !.fase = verificarSesionPersistenteSesion(sesion, resp)]
    /\ paso' = [SinPaso EXCEPT !.op = "useAuth"]
    /\ UNCHANGED <<sesion, recordarGuardado, usuarioGuardado, usuario,
                   cargandoAuth, montado, eventosAuth, manejando,
                   retrollamadas, login, logout, registro, perfilando, histA,
                   cuenta, perfil, rolPendiente, emailPendiente, llamadas,
                   varsE, varsM, varsH, varsL>>

\* verificarSesionInicial: limpiarDatosSesion() of verificarSesionPersistente
\* is done; it returns null and obtenerUsuarioActual() is called.
VerificarSesionInicialLimpiar ==
    /\ verificacion.fase = "limpiar"
    /\ recordarGuardado' = limpiarDatosSesion.recordar
    /\ usuarioGuardado' = limpiarDatosSesion.guardado
    /\ verificacion' = [verificacion EXCEPT !.fase = "usuario2"]
    /\ paso' = [SinPaso EXCEPT !.op = "useAuth"]
    /\ UNCHANGED <<sesion, usuario, cargandoAuth, montado, eventosAuth,
                   manejando, retrollamadas, login, logout, registro,
                   perfilando, histA, cuenta, perfil, rolPendiente,
                   emailPendiente, llamadas, varsE, varsM, varsH, varsL>>

\* verificarSesionInicial: the getUser of an obtenerUsuarioActual() answers,
\* the one of verificarSesionPersistente (usuario1) or the one that follows a
\* null usuarioPersistente (usuario2), which ends with setUsuario(user) and
\* setCargando(false).
VerificarSesionInicialUsuario(resp) ==
    /\ verificacion.fase \in {"usuario1", "usuario2"}
    /\ LET user == obtenerUsuarioActualUsuario(sesion, resp)
           fin  == user = NullUsuario /\ verificacion.fase = "usuario2"
       IN  /\ verificacion' =
                 IF user # NullUsuario
                 THEN [fase |-> IF verificacion.fase = "usuario1"
                                THEN "perfil1" ELSE "perfil2",
                       user |-> user]
                 ELSE IF fin THEN SinVerificacion
                 ELSE [SinVerificacion EXCEPT !.fase = "usuario2"]
           /\ usuario' = IF fin THEN NullUsuario ELSE usuario
           /\ cargandoAuth' = IF fin THEN FALSE ELSE cargandoAuth
    /\ paso' = [SinPaso EXCEPT !.op = "useAuth"]
    /\ UNCHANGED <<sesion, recordarGuardado, usuarioGuardado, montado,
                   eventosAuth, manejando, retrollamadas, login, logout,
                   registro, perfilando, histA, cuenta, perfil, rolPendiente,
                   emailPendiente, llamadas, varsE, varsM, varsH, varsL>>

\* verificarSesionInicial: the select of an obtenerUsuarioActual() answers.
\* A usuarioPersistente is set as usuario; a null one leads to the second
\* obtenerUsuarioActual(), whose result is set whatever it is.
VerificarSesionInicialPerfil(resp) ==
    /\ verificacion.fase \in {"perfil1", "perfil2"}
    /\ LET user == obtenerUsuarioActualPerfil(verificacion.user, perfil, resp)
           fin  == user # NullUsuario \/ verificacion.fase = "perfil2"
       IN  /\ verificacion' =
                 IF fin THEN SinVerificacion
                 ELSE [SinVerificacion EXCEPT !.fase = "usuario2"]
           /\ usuario' = IF fin THEN user ELSE usuario
           /\ cargandoAuth' = IF fin THEN FALSE ELSE cargandoAuth
    /\ paso' = [SinPaso EXCEPT !.op = "useAuth"]
    /\ UNCHANGED <<sesion, recordarGuardado, usuarioGuardado, montado,
                   eventosAuth, manejando, retrollamadas, login, logout,
                   registro, perfilando, histA, cuenta, perfil, rolPendiente,
                   emailPendiente, llamadas, varsE, varsM, varsH, varsL>>

\* The oldest pending auth state change is handed to the listener of
\* onAuthStateChange, once the listener's run for the one before has ended.
\* Without session?.user it calls callback(null); with it, it awaits
\* obtenerUsuarioActual().
EntregaEventoAuth ==
    /\ montado
    /\ eventosAuth # <<>>
    /\ manejando.fase = "no"
    /\ eventosAuth' = Tail(eventosAuth)
    /\ LET conSesion == Head(eventosAuth).conSesion
           r         == alCambiarAuth(NullUsuario)
       IN  /\ manejando' = IF conSesion
                           THEN [SinManejo EXCEPT !.fase = "usuario"]
                           ELSE SinManejo
           /\ usuario' = IF conSesion THEN usuario ELSE r.usuario
           /\ cargandoAuth' = IF conSesion THEN cargandoAuth ELSE r.cargando
           /\ paso' = [SinPaso EXCEPT
                          !.op = "eventoAuth", !.conSesion = conSesion,
                          !.cb = ~conSesion,
                          !.entregas = IF conSesion THEN <<>>
                                       ELSE <<NullUsuario>>]
    /\ UNCHANGED <<sesion, recordarGuardado, usuarioGuardado, montado,
                   verificacion, retrollamadas, login, logout, registro,
                   perfilando, histA, cuenta, perfil, rolPendiente,
                   emailPendiente, llamadas, varsE, varsM, varsH, varsL>>

\* The listener: the getUser of an obtenerUsuarioActual() answers, the first
\* one (usuario) or the one after crearPerfil (usuario2).  No user at the
\* first leads to the pending role; no user at the second is handed to the
\* callback.
ManejadorAuthUsuario(resp) ==
    /\ manejando.fase \in {"usuario", "usuario2"}
    /\ LET user == obtenerUsuarioActualUsuario(sesion, resp)
           fin  == user = NullUsuario /\ manejando.fase = "usuario2"
           r    == alCambiarAuth(user)
       IN  /\ manejando' =
                 IF user # NullUsuario
                 THEN [manejando EXCEPT
                          !.fase = IF manejando.fase = "usuario"
                                   THEN "perfil" ELSE "perfil2",
                          !.user = user]
                 ELSE IF fin THEN SinManejo
                 ELSE [manejando EXCEPT !.fase = "rol",
                                        !.sinPerfil = perfil = SinPerfil]
           /\ usuario' = IF fin THEN r.usuario ELSE usuario
           /\ cargandoAuth' = IF fin THEN r.cargando ELSE cargandoAuth
           /\ paso' = [SinPaso EXCEPT
                          !.op = "manejadorUsuario", !.resp = resp,
                          !.tipo = manejando.fase, !.cb = fin,
                          !.sinPerfil = manejando.sinPerfil,
                          !.rolAntes = manejando.rol,
                          !.entregas = IF fin THEN <<user>> ELSE <<>>]
    /\ UNCHANGED <<sesion, recordarGuardado, usuarioGuardado, montado,
                   verificacion, eventosAuth, retrollamadas, login, logout,
                   registro, perfilando, histA, cuenta, perfil, rolPendiente,
                   emailPendiente, llamadas, varsE, varsM, varsH, varsL>>

\* The listener: the select of an obtenerUsuarioActual() answers.  A user is
\* handed to the callback, which runs up to its getItem; no user at the first
\* fetch leads to the pending role, and the result of the second is handed to
\* the callback whatever it is.
ManejadorAuthPerfil(resp) ==
    /\ manejando.fase \in {"perfil", "perfil2"}
    /\ LET user == obtenerUsuarioActualPerfil(manejando.user, perfil, resp)
           fin  == user # NullUsuario \/ manejando.fase = "perfil2"
           r    == alCambiarAuth(user)
       IN  /\ manejando' =
                 IF fin THEN SinManejo
                 ELSE [manejando EXCEPT !.fase = "rol", !.user = NullUsuario,
                                        !.sinPerfil = perfil = SinPerfil]
           /\ usuario' = IF fin THEN r.usuario ELSE usuario
           /\ cargandoAuth' = IF fin THEN r.cargando ELSE cargandoAuth
           /\ retrollamadas' =
                 IF fin /\ r.lee
                 THEN [retrollamadas EXCEPT !.recordar = @ + 1]
                 ELSE retrollamadas
           /\ paso' = [SinPaso EXCEPT
                          !.op = "manejadorPerfil", !.resp = resp,
                          !.tipo = manejando.fase, !.cb = fin,
                          !.sinPerfil = manejando.sinPerfil,
                          !.rolAntes = manejando.rol,
                          !.entregas = IF fin THEN <<user>> ELSE <<>>]
    /\ UNCHANGED <<sesion, recordarGuardado, usuarioGuardado, montado,
                   verificacion, eventosAuth, login, logout, registro,
                   perfilando, histA, cuenta, perfil, rolPendiente,
                   emailPendiente, llamadas, varsE, varsM, varsH, varsL>>

\* The listener: getItem("pending_user_role") answers; crearPerfil is called
\* with that role or with 'usuario'.
ManejadorAuthRol ==
    /\ manejando.fase = "rol"
    /\ manejando' = [manejando EXCEPT !.fase = "crear", !.rol = rolPendiente]
    /\ paso' = [SinPaso EXCEPT !.op = "manejadorRol",
                               !.sinPerfil = manejando.sinPerfil]
    /\ UNCHANGED <<sesion, recordarGuardado, usuarioGuardado, usuario,
                   cargandoAuth, montado, verificacion, eventosAuth,
                   retrollamadas, login, logout, registro, perfilando, histA,
                   cuenta, perfil, rolPendiente, emailPendiente, llamadas,
                   varsE, varsM, varsH, varsL>>

\* The listener: the upsert of crearPerfil answers; obtenerUsuarioActual() is
\* called again.
ManejadorAuthCrear(resp) ==
    /\ manejando.fase = "crear"
    /\ perfil' = crearPerfil(perfil, rolDelPerfil(manejando.rol), resp)
    /\ manejando' = [manejando EXCEPT !.fase = "usuario2", !.rol = "null"]
    /\ paso' = [SinPaso EXCEPT !.op = "manejadorCrear", !.resp = resp,
                               !.sinPerfil = manejando.sinPerfil,
                               !.rolAntes = manejando.rol,
                               !.perfilAntes = perfil]
    /\ UNCHANGED <<sesion, recordarGuardado, usuarioGuardado, usuario,
                   cargandoAuth, montado, verificacion, eventosAuth,
                   retrollamadas, login, logout, registro, perfilando, histA,
                   cuenta, rolPendiente, emailPendiente, llamadas, varsE,
                   varsM, varsH, varsL>>

\* The callback of useAuth: its getItem(SESSION_REMEMBER_KEY) answers.
AlCambiarAuthRecordar ==
    /\ retrollamadas.recordar > 0
    /\ retrollamadas' =
          [recordar |-> retrollamadas.recordar - 1,
           guardar  |-> retrollamadas.guardar
                           + IF alCambiarAuthGuarda(recordarGuardado)
                             THEN 1 ELSE 0]
    /\ paso' = [SinPaso EXCEPT !.op = "useAuth"]
    /\ UNCHANGED <<sesion, recordarGuardado, usuarioGuardado, usuario,
                   cargandoAuth, montado, verificacion, eventosAuth,
                   manejando, login, logout, registro, perfilando, histA,
                   cuenta, perfil, rolPendiente, emailPendiente, llamadas,
                   varsE, varsM, varsH, varsL>>

\* The callback of useAuth: its setObject(SESSION_USER_KEY, user) is done.
AlCambiarAuthGuardar ==
    /\ retrollamadas.guardar > 0
    /\ retrollamadas' = [retrollamadas EXCEPT !.guardar = @ - 1]
    /\ usuarioGuardado' = Cuenta
    /\ paso' = [SinPaso EXCEPT !.op = "callbackGuardar",
                               !.guardoUsuario = TRUE]
    /\ UNCHANGED <<sesion, recordarGuardado, usuario, cargandoAuth, montado,
                   verificacion, eventosAuth, manejando, login, logout,
                   registro, perfilando, histA, cuenta, perfil, rolPendiente,
                   emailPendiente, llamadas, varsE, varsM, varsH, varsL>>

\* iniciarSesion(email, password, recordarSesion): signInWithPassword answers.
\* On success the client holds the session and emits the change, and
\* setItem(SESSION_REMEMBER_KEY, ...) is called.
IniciarSesion(recordarSesion, resp) ==
    /\ montado
    /\ login.fase = "no"
    /\ llamadas < MaxLlamadas
    /\ llamadas' = llamadas + 1
    /\ resp = "ok" => (cuenta.estado = "activa" /\ EnTramite < MaxEventos)
    /\ sesion' = IF resp = "ok" THEN Cuenta ELSE sesion
    /\ eventosAuth' = IF resp = "ok"
                      THEN Append(eventosAuth, [conSesion |-> TRUE])
                      ELSE eventosAuth
    /\ login' = IF resp = "ok"
                THEN [SinLogin EXCEPT !.fase = "preferencia",
                                      !.recordar = recordarSesion]
                ELSE login
    /\ histA' = IF resp = "ok"
                THEN [histA EXCEPT !.ultimoLogin = "ninguno", !.cerrada = FALSE]
                ELSE histA
    /\ paso' = [SinPaso EXCEPT !.op = "useAuth"]
    /\ UNCHANGED <<recordarGuardado, usuarioGuardado, usuario, cargandoAuth,
                   montado, verificacion, manejando, retrollamadas, logout,
                   registro, perfilando, cuenta, perfil, rolPendiente,
                   emailPendiente, varsE, varsM, varsH, varsL>>

\* iniciarSesion: setItem(SESSION_REMEMBER_KEY, recordarSesion.toString()) is
\* done; without recordarSesion it returns success, with it it calls
\* obtenerUsuarioActual().
IniciarSesionPreferencia ==
    /\ login.fase = "preferencia"
    /\ recordarGuardado' = IF login.recordar THEN "true" ELSE "false"
    /\ login' = IF login.recordar THEN [login EXCEPT !.fase = "usuario"]
                ELSE SinLogin
    /\ histA' = IF login.recordar THEN histA
                ELSE [histA EXCEPT !.ultimoLogin = "sinRecordar"]
    /\ paso' = [SinPaso EXCEPT !.op = "useAuth"]
    /\ UNCHANGED <<sesion, usuarioGuardado, usuario, cargandoAuth, montado,
                   verificacion, eventosAuth, manejando, retrollamadas,
                   logout, registro, perfilando, cuenta, perfil,
                   rolPendiente, emailPendiente, llamadas, varsE, varsM,
                   varsH, varsL>>

\* iniciarSesion with recordarSesion: the getUser of obtenerUsuarioActual()
\* answers; without a user it returns success.
IniciarSesionUsuario(resp) ==
    /\ login.fase = "usuario"
    /\ LET user == obtenerUsuarioActualUsuario(sesion, resp)
       IN  /\ login' = IF user # NullUsuario
                       THEN [login EXCEPT !.fase = "perfil", !.user = user]
                       ELSE SinLogin
           /\ histA' = IF user # NullUsuario THEN histA
                       ELSE [histA EXCEPT !.ultimoLogin = "recordar"]
    /\ paso' = [SinPaso EXCEPT !.op = "useAuth"]
    /\ UNCHANGED <<sesion, recordarGuardado, usuarioGuardado, usuario,
                   cargandoAuth, montado, verificacion, eventosAuth,
                   manejando, retrollamadas, logout, registro, perfilando,
                   cuenta, perfil, rolPendiente, emailPendiente, llamadas,
                   varsE, varsM, varsH, varsL>>

\* iniciarSesion with recordarSesion: the select of obtenerUsuarioActual()
\* answers; with a usuarioCompleto setObject(SESSION_USER_KEY, ...) is called,
\* without one it returns success.
IniciarSesionPerfil(resp) ==
    /\ login.fase = "perfil"
    /\ LET usuarioCompleto ==
               obtenerUsuarioActualPerfil(login.user, perfil, resp)
       IN  /\ login' = IF usuarioCompleto # NullUsuario
                       THEN [login EXCEPT !.fase = "guardar"]
                       ELSE SinLogin
           /\ histA' = IF usuarioCompleto # NullUsuario THEN histA
                       ELSE [histA EXCEPT !.ultimoLogin = "recordar"]
    /\ paso' = [SinPaso EXCEPT !.op = "useAuth"]
    /\ UNCHANGED <<sesion, recordarGuardado, usuarioGuardado, usuario,
                   cargandoAuth, montado, verificacion, eventosAuth,
                   manejando, retrollamadas, logout, registro, perfilando,
                   cuenta, perfil, rolPendiente, emailPendiente, llamadas,
                   varsE, varsM, varsH, varsL>>

\* iniciarSesion with recordarSesion: setObject(SESSION_USER_KEY,
\* usuarioCompleto) is done; it returns success.
IniciarSesionGuardar ==
    /\ login.fase = "guardar"
    /\ usuarioGuardado' = login.user
    /\ login' = SinLogin
    /\ histA' = [histA EXCEPT !.ultimoLogin = "recordar"]
    /\ paso' = [SinPaso EXCEPT !.op = "loginGuardar", !.guardoUsuario = TRUE]
    /\ UNCHANGED <<sesion, recordarGuardado, usuario, cargandoAuth, montado,
                   verificacion, eventosAuth, manejando, retrollamadas,
                   logout, registro, perfilando, cuenta, perfil,
                   rolPendiente, emailPendiente, llamadas, varsE, varsM,
                   varsH, varsL>>

\* cerrarSesion(): signOut answers.  On success the client holds no session
\* and limpiarDatosSesion() is called; a client that held a session emits the
\* change, one that held none emits it or not (avisa).  On an error
\* cerrarSesion returns the failure.
CerrarSesion(resp, avisa) ==
    /\ montado
    /\ logout = "no"
    /\ llamadas < MaxLlamadas
    /\ llamadas' = llamadas + 1
    /\ LET emite == resp = "ok" /\ avisa
       IN  /\ emite => EnTramite < MaxEventos
           /\ eventosAuth' = IF emite
                             THEN Append(eventosAuth, [conSesion |-> FALSE])
                             ELSE eventosAuth
    /\ sesion' = IF resp = "ok" THEN NullUsuario ELSE sesion
    /\ logout' = IF resp = "ok" THEN "limpiar" ELSE logout
    /\ histA' = IF resp = "ok"
                THEN [histA EXCEPT !.ultimoLogin = "ninguno", !.cerrada = FALSE]
                ELSE histA
    /\ paso' = [SinPaso EXCEPT !.op = "useAuth"]
    /\ UNCHANGED <<recordarGuardado, usuarioGuardado, usuario, cargandoAuth,
                   montado, verificacion, manejando, retrollamadas, login,
                   registro, perfilando, cuenta, perfil, rolPendiente,
                   emailPendiente, varsE, varsM, varsH, varsL>>

\* cerrarSesion(): limpiarDatosSesion() is done; it returns success.
CerrarSesionLimpiar ==
    /\ logout = "limpiar"
    /\ recordarGuardado' = limpiarDatosSesion.recordar
    /\ usuarioGuardado' = limpiarDatosSesion.guardado
    /\ logout' = "no"
    /\ paso' = [SinPaso EXCEPT !.op = "useAuth"]
    /\ UNCHANGED <<sesion, usuario, cargandoAuth, montado, verificacion,
                   eventosAuth, manejando, retrollamadas, login, registro,
                   perfilando, histA, cuenta, perfil, rolPendiente,
                   emailPendiente, llamadas, varsE, varsM, varsH, varsL>>

\* The app is closed: the process ends with whatever it had in flight; the
\* AsyncStorage items and the client's stored session stay.
CerrarApp ==
    /\ montado
    /\ montado' = FALSE
    /\ usuario' = NullUsuario
    /\ cargandoAuth' = TRUE
    /\ verificacion' = SinVerificacion
    /\ eventosAuth' = <<>>
    /\ manejando' = SinManejo
    /\ retrollamadas' = SinRetrollamadas
    /\ login' = SinLogin
    /\ logout' = "no"
    /\ registro' = SinRegistro
    /\ perfilando' = SinPerfilando
    /\ histA' = [histA EXCEPT !.cerrada = TRUE]
    /\ paso' = [SinPaso EXCEPT !.op = "useAuth"]
    /\ UNCHANGED <<sesion, recordarGuardado, usuarioGuardado, cuenta, perfil,
                   rolPendiente, emailPendiente, llamadas, varsE, varsM,
                   varsH, varsL>>

\* useAuth.registrar(email, password, rol) for an address with no account:
\* signUp answers.  A session given at once is held by the client, which
\* emits the change, and the upsert is called; without a session
\* authUseCase.registrar returns needsConfirmation and the hook calls
\* setItem("pending_user_role", rol).
Registrar(rol, resp) ==
    /\ montado
    /\ registro.fase = "no"
    /\ llamadas < MaxLlamadas
    /\ llamadas' = llamadas + 1
    /\ cuenta.estado = "ninguna"
    /\ LET r == registrarSignUp(resp)
       IN  /\ r.conSesion => EnTramite < MaxEventos
           /\ cuenta' = IF ~r.creada THEN cuenta
                        ELSE [estado   |-> IF r.conSesion
                                           THEN "activa" ELSE "porConfirmar",
                              rol      |-> rol,
                              porEmail |-> ~r.conSesion]
           /\ sesion' = IF r.conSesion THEN Cuenta ELSE sesion
           /\ eventosAuth' = IF r.conSesion
                             THEN Append(eventosAuth, [conSesion |-> TRUE])
                             ELSE eventosAuth
           /\ registro' = IF ~r.termina THEN [fase |-> "perfil", rol |-> rol]
                          ELSE IF registrarGuardaPendiente(r)
                          THEN [fase |-> "rol", rol |-> rol]
                          ELSE SinRegistro
    /\ paso' = [SinPaso EXCEPT !.op = "useAuth"]
    /\ UNCHANGED <<recordarGuardado, usuarioGuardado, usuario, cargandoAuth,
                   montado, verificacion, manejando, retrollamadas, login,
                   logout, perfilando, histA, perfil, rolPendiente,
                   emailPendiente, varsE, varsM, varsH, varsL>>

\* registrar: the upsert into usuarios answers and authUseCase.registrar
\* returns; the result does not need the confirmation, so the hook returns.
RegistrarPerfil(resp) ==
    /\ registro.fase = "perfil"
    /\ perfil' = registrarUpsert(perfil, registro.rol, resp).perfil
    /\ registro' = SinRegistro
    /\ paso' = [SinPaso EXCEPT !.op = "useAuth"]
    /\ UNCHANGED <<sesion, recordarGuardado, usuarioGuardado, usuario,
                   cargandoAuth, montado, verificacion, eventosAuth,
                   manejando, retrollamadas, login, logout, perfilando,
                   histA, cuenta, rolPendiente, emailPendiente, llamadas,
                   varsE, varsM, varsH, varsL>>

\* registrar: setItem("pending_user_role", rol) is done;
\* setItem("pending_user_email", email) is called.
RegistrarRol ==
    /\ registro.fase = "rol"
    /\ rolPendiente' = registro.rol
    /\ registro' = [registro EXCEPT !.fase = "email"]
    /\ paso' = [SinPaso EXCEPT !.op = "useAuth"]
    /\ UNCHANGED <<sesion, recordarGuardado, usuarioGuardado, usuario,
                   cargandoAuth, montado, verificacion, eventosAuth,
                   manejando, retrollamadas, login, logout, perfilando,
                   histA, cuenta, perfil, emailPendiente, llamadas, varsE,
                   varsM, varsH, varsL>>

\* registrar: setItem("pending_user_email", email) is done; it returns.
RegistrarEmail ==
    /\ registro.fase = "email"
    /\ emailPendiente' = TRUE
    /\ registro' = SinRegistro
    /\ paso' = [SinPaso EXCEPT !.op = "useAuth"]
    /\ UNCHANGED <<sesion, recordarGuardado, usuarioGuardado, usuario,
                   cargandoAuth, montado, verificacion, eventosAuth,
                   manejando, retrollamadas, login, logout, perfilando,
                   histA, cuenta, perfil, rolPendiente, llamadas, varsE,
                   varsM, varsH, varsL>>

\* The link of the confirmation email is followed: the account can sign in.
ConfirmarEmail ==
    /\ cuenta.estado = "porConfirmar"
    /\ cuenta' = [cuenta EXCEPT !.estado = "activa"]
    /\ paso' = [SinPaso EXCEPT !.op = "useAuth"]
    /\ UNCHANGED <<sesion, recordarGuardado, usuarioGuardado, usuario,
                   cargandoAuth, montado, verificacion, eventosAuth,
                   manejando, retrollamadas, login, logout, registro,
                   perfilando, histA, perfil, rolPendiente, emailPendiente,
                   llamadas, varsE, varsM, varsH, varsL>>

\* useAuth.crearPerfilConRol() is called: it holds the usuario of the render
\* it belongs to and calls getItem("pending_user_role").
CrearPerfilConRol ==
    /\ montado
    /\ perfilando.fase = "no"
    /\ llamadas < MaxLlamadas
    /\ llamadas' = llamadas + 1
    /\ perfilando' = [SinPerfilando EXCEPT !.fase = "rol", !.usr = usuario]
    /\ paso' = [SinPaso EXCEPT !.op = "useAuth"]
    /\ UNCHANGED <<sesion, recordarGuardado, usuarioGuardado, usuario,
                   cargandoAuth, montado, verificacion, eventosAuth,
                   manejando, retrollamadas, login, logout, registro, histA,
                   cuenta, perfil, rolPendiente, emailPendiente, varsE,
                   varsM, varsH, varsL>>

\* crearPerfilConRol: getItem("pending_user_role") answers.
CrearPerfilConRolRol ==
    /\ perfilando.fase = "rol"
    /\ perfilando' = [perfilando EXCEPT !.fase = "email", !.rol = rolPendiente]
    /\ paso' = [SinPaso EXCEPT !.op = "useAuth"]
    /\ UNCHANGED <<sesion, recordarGuardado, usuarioGuardado, usuario,
                   cargandoAuth, montado, verificacion, eventosAuth,
                   manejando, retrollamadas, login, logout, registro, histA,
                   cuenta, perfil, rolPendiente, emailPendiente, llamadas,
                   varsE, varsM, varsH, varsL>>

\* crearPerfilConRol: getItem("pending_user_email") answers; with a role, an
\* email and a user crearPerfil is called, else the failure is returned.
CrearPerfilConRolEmail ==
    /\ perfilando.fase = "email"
    /\ perfilando' =
          IF crearPerfilConRolProcede(perfilando.rol, emailPendiente,
                                      perfilando.usr)
          THEN [perfilando EXCEPT !.fase = "crear", !.email = emailPendiente]
          ELSE SinPerfilando
    /\ paso' = [SinPaso EXCEPT !.op = "useAuth"]
    /\ UNCHANGED <<sesion, recordarGuardado, usuarioGuardado, usuario,
                   cargandoAuth, montado, verificacion, eventosAuth,
                   manejando, retrollamadas, login, logout, registro, histA,
                   cuenta, perfil, rolPendiente, emailPendiente, llamadas,
                   varsE, varsM, varsH, varsL>>

\* crearPerfilConRol: the upsert of crearPerfil answers; on success
\* removeItem("pending_user_role") is called, else the failure is returned.
CrearPerfilConRolCrear(resp) ==
    /\ perfilando.fase = "crear"
    /\ perfil' = crearPerfil(perfil, perfilando.rol, resp)
    /\ perfilando' = IF resp = "ok"
                     THEN [perfilando EXCEPT !.fase = "quitarRol"]
                     ELSE SinPerfilando
    /\ paso' = [SinPaso EXCEPT !.op = "useAuth"]
    /\ UNCHANGED <<sesion, recordarGuardado, usuarioGuardado, usuario,
                   cargandoAuth, montado, verificacion, eventosAuth,
                   manejando, retrollamadas, login, logout, registro, histA,
                   cuenta, rolPendiente, emailPendiente, llamadas, varsE,
                   varsM, varsH, varsL>>

\* crearPerfilConRol: removeItem("pending_user_role") is done.
CrearPerfilConRolQuitarRol ==
    /\ perfilando.fase = "quitarRol"
    /\ rolPendiente' = "null"
    /\ perfilando' = [perfilando EXCEPT !.fase = "quitarEmail"]
    /\ paso' = [SinPaso EXCEPT !.op = "useAuth"]
    /\ UNCHANGED <<sesion, recordarGuardado, usuarioGuardado, usuario,
                   cargandoAuth, montado, verificacion, eventosAuth,
                   manejando, retrollamadas, login, logout, registro, histA,
                   cuenta, perfil, emailPendiente, llamadas, varsE, varsM,
                   varsH, varsL>>

\* crearPerfilConRol: removeItem("pending_user_email") is done;
\* obtenerUsuarioActual() is called.
CrearPerfilConRolQuitarEmail ==
    /\ perfilando.fase = "quitarEmail"
    /\ emailPendiente' = FALSE
    /\ perfilando' = [perfilando EXCEPT !.fase = "usuario"]
    /\ paso' = [SinPaso EXCEPT !.op = "useAuth"]
    /\ UNCHANGED <<sesion, recordarGuardado, usuarioGuardado, usuario,
                   cargandoAuth, montado, verificacion, eventosAuth,
                   manejando, retrollamadas, login, logout, registro, histA,
                   cuenta, perfil, rolPendiente, llamadas, varsE, varsM,
                   varsH, varsL>>

\* crearPerfilConRol: the getUser of obtenerUsuarioActual() answers; without
\* a user setUsuario(null) runs and the result is returned.
CrearPerfilConRolUsuario(resp) ==
    /\ perfilando.fase = "usuario"
    /\ LET user == obtenerUsuarioActualUsuario(sesion, resp)
       IN  /\ perfilando' = IF user # NullUsuario
                            THEN [perfilando EXCEPT !.fase = "perfil"]
                            ELSE SinPerfilando
           /\ usuario' = IF user # NullUsuario THEN usuario ELSE NullUsuario
    /\ paso' = [SinPaso EXCEPT !.op = "useAuth"]
    /\ UNCHANGED <<sesion, recordarGuardado, usuarioGuardado, cargandoAuth,
                   montado, verificacion, eventosAuth, manejando,
                   retrollamadas, login, logout, registro, histA, cuenta,
                   perfil, rolPendiente, emailPendiente, llamadas, varsE,
                   varsM, varsH, varsL>>

\* crearPerfilConRol: the select of obtenerUsuarioActual() answers;
\* setUsuario(usuarioActualizado) runs and the result is returned.
CrearPerfilConRolPerfil(resp) ==
    /\ perfilando.fase = "perfil"
    /\ usuario' = obtenerUsuarioActualPerfil(Cuenta, perfil, resp)
    /\ perfilando' = SinPerfilando
    /\ paso' = [SinPaso EXCEPT !.op = "useAuth"]
    /\ UNCHANGED <<sesion, recordarGuardado, usuarioGuardado, cargandoAuth,
                   montado, verificacion, eventosAuth, manejando,
                   retrollamadas, login, logout, registro, histA, cuenta,
                   perfil, rolPendiente, emailPendiente, llamadas, varsE,
                   varsM, varsH, varsL>>

\* --------------------------------------------------------- specifications
\* One typing subscription, in time.
NextEscritura ==
    \/ SuscribirseAEscritura(1)
    \/ Limpieza(1)
    \/ \E u \in Usuarios : EntregaEscritura(1, u)
    \/ \E u \in Usuarios : EntregaDirecta(1, u)
    \/ DesuscribirEscritura(1)
    \/ \E t \in Instantes : Tic(t)

SpecEscritura == Init /\ [][NextEscritura]_vars

\* The subscribe and unsubscribe calls of both kinds, in any order.
NextSuscripciones ==
    \/ \E i \in Subs : SuscribirseAEscritura(i)
    \/ \E i \in Subs : DesuscribirEscritura(i)
    \/ \E i \in Subs : SuscribirseAMensajes(i)
    \/ \E i \in Subs : DesuscribirMensajes(i)

SpecSuscripciones == Init /\ [][NextSuscripciones]_vars

\* One message subscription with its enrichment fetches and the UI list.
NextMensajes ==
    \/ SuscribirseAMensajes(1)
    \/ \E id \in MsgIds : EntregaMensaje(1, id)
    \/ \E id \in MsgIds, tipo \in TiposRespuesta : ResuelveFetch(1, id, tipo)
    \/ DesuscribirMensajes(1)

SpecMensajes == Init /\ [][NextMensajes]_vars

\* The input, its debounce timer and the sends of the hook.
NextEnvio ==
    \/ \E texto \in Contenidos : SetInputTexto(texto)
    \/ \E resp \in RespuestasUsuario : EventoEscrituraUsuario(resp)
    \/ \E resp \in RespuestasInsert : EventoEscrituraInsert(resp)
    \/ VenceTimeout
    \/ \E contenido \in Contenidos : EnviarMensajeInicio(contenido)
    \/ \E k \in 1..MaxEnvios, resp \in RespuestasBackend :
          EnviarMensajeFin(k, resp)

SpecEnvio == Init /\ [][NextEnvio]_vars

\* The UI message list under loads, deletes and sends of two texts.
NextLista ==
    \/ CargarMensajesInicio
    \/ \E respuesta \in RespuestasConsulta(LimitePorDefecto) :
          CargarMensajesFin(respuesta)
    \/ \E mensajeId \in MsgIds, resp \in RespuestasBorrado :
          EliminarMensaje(mensajeId, resp)
    \/ \E contenido \in {<<" ">>, <<"a">>} : EnviarMensajeInicio(contenido)
    \/ \E k \in 1..MaxEnvios, resp \in RespuestasBackend :
          EnviarMensajeFin(k, resp)

SpecLista == Init /\ [][NextLista]_vars

\* Every call the hook makes of the four ChatUseCase operations, under every
\* backend outcome, with one text typed and sent and loads of at most one row.
NextOperaciones ==
    \/ CargarMensajesInicio
    \/ \E respuesta \in RespuestasConsulta(1) : CargarMensajesFin(respuesta)
    \/ \E mensajeId \in MsgIds, resp \in RespuestasBorrado :
          EliminarMensaje(mensajeId, resp)
    \/ \E texto \in {<<>>, <<"a">>} : SetInputTexto(texto)
    \/ \E resp \in RespuestasUsuario : EventoEscrituraUsuario(resp)
    \/ \E resp \in RespuestasInsert : EventoEscrituraInsert(resp)
    \/ EnviarMensajeInicio(<<"a">>)
    \/ \E k \in 1..MaxEnvios, resp \in RespuestasBackend :
          EnviarMensajeFin(k, resp)

SpecOperaciones == Init /\ [][NextOperaciones]_vars

\* One message subscription pushing into the UI list while the list is loaded.
NextCarga ==
    \/ SuscribirseAMensajes(1)
    \/ \E id \in MsgIds : EntregaMensaje(1, id)
    \/ \E id \in MsgIds, tipo \in TiposRespuesta : ResuelveFetch(1, id, tipo)
    \/ CargarMensajesInicio
    \/ \E respuesta \in RespuestasConsulta(LimitePorDefecto) :
          CargarMensajesFin(respuesta)

SpecCarga == Init /\ [][NextCarga]_vars

\* Registration, login, logout, and closing and reopening the app.  One call
\* of each method of the hook is in flight at a time.
NextAuth ==
    \/ \E conEventoInicial \in BOOLEAN : AbrirApp(conEventoInicial)
    \/ VerificarSesionInicialRecordar
    \/ \E resp \in RespuestasSesion : VerificarSesionInicialSesion(resp)
    \/ VerificarSesionInicialLimpiar
    \/ \E resp \in RespuestasAuth : VerificarSesionInicialUsuario(resp)
    \/ \E resp \in RespuestasAuth : VerificarSesionInicialPerfil(resp)
    \/ EntregaEventoAuth
    \/ \E resp \in RespuestasAuth : ManejadorAuthUsuario(resp)
    \/ \E resp \in RespuestasAuth : ManejadorAuthPerfil(resp)
    \/ ManejadorAuthRol
    \/ \E resp \in RespuestasAuth : ManejadorAuthCrear(resp)
    \/ AlCambiarAuthRecordar
    \/ AlCambiarAuthGuardar
    \/ \E rol \in Roles, resp \in RespuestasRegistro : Registrar(rol, resp)
    \/ \E resp \in RespuestasAuth : RegistrarPerfil(resp)
    \/ RegistrarRol
    \/ RegistrarEmail
    \/ ConfirmarEmail
    \/ CrearPerfilConRol
    \/ CrearPerfilConRolRol
    \/ CrearPerfilConRolEmail
    \/ \E resp \in RespuestasAuth : CrearPerfilConRolCrear(resp)
    \/ CrearPerfilConRolQuitarRol
    \/ CrearPerfilConRolQuitarEmail
    \/ \E resp \in RespuestasAuth : CrearPerfilConRolUsuario(resp)
    \/ \E resp \in RespuestasAuth : CrearPerfilConRolPerfil(resp)
    \/ \E recordarSesion \in BOOLEAN, resp \in RespuestasAuth :
          IniciarSesion(recordarSesion, resp)
    \/ IniciarSesionPreferencia
    \/ \E resp \in RespuestasAuth : IniciarSesionUsuario(resp)
    \/ \E resp \in RespuestasAuth : IniciarSesionPerfil(resp)
    \/ IniciarSesionGuardar
    \/ \E resp \in RespuestasAuth, avisa \in AvisosCierre(sesion) :
          CerrarSesion(resp, avisa)
    \/ CerrarSesionLimpiar
    \/ CerrarApp

SpecAuth == Init /\ [][NextAuth]_vars

\* ------------------------------------------------------------------ claims
\* C1: right after a sweep the map of that subscription holds no user whose
\* most recent received event is more than 3000 ms before the sweep, and the
\* list the sweep hands to the callback holds no such user either.
C1_TrasLimpiezaNadieVencido ==
    paso.op = "limpieza" =>
        /\ \A u \in Rango(MapKeys(subsE[paso.sub].mapa)) :
              now - ultimoEvento[paso.sub][u] <= InactividadMs
        /\ paso.cb =>
              \A u \in Rango(paso.lista) :
                 now - ultimoEvento[paso.sub][u] <= InactividadMs

\* A sweep that evicted one user, kept another and reported the rest.
C1_Testigo ==
    /\ paso.op = "limpieza"
    /\ paso.cb
    /\ Len(paso.lista) = 1
    /\ Len(paso.antes) = 2

\* C2 as stated: the callback is invoked only when the membership of the
\* presence set changes; an insert for a present user does not invoke it.
C2_SoloSiCambiaMembresia ==
    (paso.op \in {"insert", "limpieza"} /\ paso.cb) =>
        Rango(paso.antes) # Rango(MapKeys(subsE[paso.sub].mapa))

\* C2 amended: every typing insert-event invokes the callback with the current
\* key list, also when the user was already present (membership unchanged);
\* a sweep invokes it exactly when it evicted an entry.
C2_CadaInsertAvisa ==
    /\ paso.op = "insert" =>
          /\ paso.cb
          /\ paso.lista = MapKeys(subsE[paso.sub].mapa)
          /\ usuariosEscribiendo = paso.lista
          /\ Rango(paso.lista) = Rango(paso.antes) \cup {paso.user}
    /\ paso.op = "limpieza" =>
          (paso.cb <=> Rango(paso.antes) # Rango(MapKeys(subsE[paso.sub].mapa)))

\* An insert for a user already present, on a live channel, that called back.
C2_Testigo ==
    /\ paso.op = "insert"
    /\ paso.enVivo
    /\ paso.user \in Rango(paso.antes)
    /\ paso.cb
    /\ Len(paso.lista) = 2

\* C3 as stated: with u1's events received at 0, 1000 and 2000 ms and none
\* after, a sweep that reads the clock at 5000 ms has evicted u1 and the
\* reported list lacks u1.
C3_EscenarioEvictaALos5s ==
    (paso.op = "limpieza" /\ paso.sub = 1 /\ now = 5000 /\ escenario = 3) =>
        /\ ~MapHas(subsE[1].mapa, "u1")
        /\ "u1" \notin Rango(usuariosEscribiendo)

\* C3 amended: a sweep removes a user exactly when the clock it reads minus
\* the user's last event time exceeds 3000 ms (at exactly 3000 ms the user
\* stays: a sweep reading 5000 ms keeps a user last seen at 2000 ms, one
\* reading 5001 ms removes it), and a removal is reported to the callback
\* with a list without that user.
C3_PrimerBarridoVencido ==
    paso.op = "limpieza" =>
        \A u \in Usuarios :
           LET t == ultimoEvento[paso.sub][u]
           IN  /\ (t # SinEvento /\ now - t > InactividadMs) =>
                     /\ ~MapHas(subsE[paso.sub].mapa, u)
                     /\ u \in Rango(paso.antes) =>
                           /\ paso.cb
                           /\ u \notin Rango(paso.lista)
                           /\ usuariosEscribiendo = paso.lista
               /\ (t # SinEvento /\ now - t <= InactividadMs) =>
                     MapHas(subsE[paso.sub].mapa, u)

\* The scenario's events, then a sweep that ran after 5000 ms evicts u1 and
\* reports <<>>.
C3_Testigo ==
    /\ paso.op = "limpieza"
    /\ escenario = 3
    /\ now > 5000
    /\ paso.mapaAntes = <<[userId |-> "u1", timestamp |-> 2000]>>
    /\ paso.cb
    /\ usuariosEscribiendo = <<>>

\* C4: an insert-event handed to the handler after its unsubscribe was called
\* does not invoke the callback.
C4_TrasCancelarNoAvisa ==
    (paso.op = "insert" /\ subsE[paso.sub].cancelada) => ~paso.cb

\* C5: the unsubscribe of a typing subscription leaves channelEscritura null,
\* the channel it held removed, the interval cleared and the map empty, and no
\* sweep of that subscription runs once its unsubscribe has been called.
C5_DesuscribirLimpiaTodo ==
    /\ paso.op = "desuscribirE" =>
          /\ channelEscritura = Null
          /\ paso.removido \notin canalesE
          /\ paso.sub \notin canalesE
          /\ ~subsE[paso.sub].intervalo
          /\ subsE[paso.sub].mapa = <<>>
    /\ paso.op = "limpieza" => ~subsE[paso.sub].cancelada
    /\ \A i \in Subs : subsE[i].cancelada => ~subsE[i].intervalo

\* A first unsubscribe that removed the channel and cleared a non-empty map.
C5_Testigo ==
    /\ paso.op = "desuscribirE"
    /\ ~paso.repetida
    /\ paso.removido = paso.sub
    /\ paso.removido # Null
    /\ Len(paso.antes) = 2
    /\ now > IntervaloLimpiezaMs

\* C6: a second or later call of the same unsubscribe function, with no
\* subscribe of that kind since its previous call, hands no channel to
\* removeChannel and leaves the whole program state as it was; for the typing
\* and for the message subscription.
C6_SegundaLlamadaNoHaceNada ==
    [][ (/\ paso'.op \in {"desuscribirE", "desuscribirM"}
         /\ paso'.repetida
         /\ paso'.sinOtra)
        => (/\ paso'.removido = Null
            /\ UNCHANGED <<now, channelEscritura, canalesE, subsE,
                           usuariosEscribiendo, channelMensajes, canalesM,
                           subsM, enVuelo, mensajes>>) ]_vars

\* A repeated unsubscribe of each kind has run, the typing one while another
\* typing channel was still held.
C6_Testigo ==
    /\ paso.op = "desuscribirE"
    /\ paso.repetida
    /\ paso.sinOtra
    /\ canalesE # {}
    /\ \E i \in Subs : subsM[i].cancelada /\ channelMensajes = Null

\* C7: once the unsubscribe of a message subscription has been called, no
\* handler run of that subscription invokes onInsert, also when its enrichment
\* fetch was in flight at the time of the call.
C7_TrasCancelarFetchNoAvisa ==
    (paso.op = "fetch" /\ subsM[paso.sub].cancelada) => ~paso.cb

\* C8: when the enrichment fetch returns an error or throws, onInsert is still
\* invoked, with the payload's id, contenido, usuario_id and created_at and the
\* placeholder author, and the UI list then holds a message with that id.
C8_FalloDeFetchEntregaFallback ==
    (paso.op = "fetch" /\ paso.tipo \in {"error", "excepcion"}) =>
        /\ paso.cb
        /\ paso.mensaje.id = Fila(paso.idMsg).id
        /\ paso.mensaje.contenido = Fila(paso.idMsg).contenido
        /\ paso.mensaje.usuario_id = Fila(paso.idMsg).usuario_id
        /\ paso.mensaje.created_at = Fila(paso.idMsg).created_at
        /\ paso.mensaje.usuario = [email |-> "Desconocido", rol |-> "usuario"]
        /\ \E j \in 1..Len(mensajes) : mensajes[j].id = paso.idMsg

\* A fetch that threw, whose fallback record was appended to the UI list.
C8_Testigo ==
    /\ paso.op = "fetch"
    /\ paso.tipo = "excepcion"
    /\ Len(mensajes) = Len(paso.mensajesAntes) + 1
    /\ mensajes[Len(mensajes)].usuario.email = "Desconocido"

\* C9: the UI message list never holds one id twice, and a pushed message
\* whose id is already in the list leaves the list as it was.
C9_ListaSinIdsRepetidos ==
    /\ \A j, k \in 1..Len(mensajes) : mensajes[j].id = mensajes[k].id => j = k
    /\ (/\ paso.op = "fetch"
        /\ paso.cb
        /\ \E j \in 1..Len(paso.mensajesAntes) :
              paso.mensajesAntes[j].id = paso.mensaje.id)
       => mensajes = paso.mensajesAntes

\* The same insert-event delivered twice: its second push found the id present,
\* with a second fetch of it still in flight earlier, and the list has 2 ids.
C9_Testigo ==
    /\ paso.op = "fetch"
    /\ paso.cb
    /\ \E j \in 1..Len(paso.mensajesAntes) :
          paso.mensajesAntes[j].id = paso.mensaje.id
    /\ Len(mensajes) = 2

\* C10: a send whose content is empty or only whitespace returns the
\* empty-content failure without reaching the use case, and no content that is
\* blank is ever in flight to, or inserted into, the message log.
C10_EnvioEnBlancoFalla ==
    /\ (/\ paso.op = "enviarInicio"
        /\ \A j \in 1..Len(paso.contenido) :
              paso.contenido[j] \in EspaciosEnBlanco)
       => (/\ paso.resultado = [success |-> FALSE,
                                error |-> "El mensaje está vacío"]
           /\ ~paso.enCurso)
    /\ \A k \in 1..Len(envios) :
          \E j \in 1..Len(envios[k]) : envios[k][j] \notin EspaciosEnBlanco
    /\ \A k \in 1..Len(tablaMensajes) :
          \E j \in 1..Len(tablaMensajes[k]) :
             tablaMensajes[k][j] \notin EspaciosEnBlanco

\* A send of whitespace only was refused after another send had inserted a row.
C10_Testigo ==
    /\ paso.op = "enviarInicio"
    /\ paso.contenido = <<" ", " ", " ">>
    /\ ~paso.resultado.success
    /\ Len(tablaMensajes) = 1

\* C11: a send that finds no authenticated user returns the failure result
\* {success: false, error: 'Usuario no autenticado'} and inserts no row into
\* the message log and no row into the typing log.
C11_SinUsuarioNoInserta ==
    (paso.op = "enviarFin" /\ paso.resp = "sinUsuario") =>
        /\ paso.resultado = [success |-> FALSE,
                             error |-> "Usuario no autenticado"]
        /\ ~paso.insertoMensaje
        /\ ~paso.insertoIndicador
        /\ tablaMensajes = paso.tablaAntes
        /\ indicadores = paso.indicadoresAntes

\* A send without a user failed after an earlier send and an earlier typing
\* event had each inserted a row.
C11_Testigo ==
    /\ paso.op = "enviarFin"
    /\ paso.resp = "sinUsuario"
    /\ ~paso.resultado.success
    /\ Len(tablaMensajes) = 1
    /\ indicadores = 1

\* C12 as stated: the list obtenerMensajes returns is in non-decreasing
\* created_at order, whatever order the backend returned the rows in.
C12_SiempreAscendente ==
    paso.op = "cargarFin" =>
        \A j, k \in 1..Len(mensajes) :
           j < k => mensajes[j].created_at <= mensajes[k].created_at

\* C12 amended: obtenerMensajes returns the rows of the backend's answer in the
\* reverse of the order the backend returned them in, and the empty list when
\* the query fails or has no data; the result is in non-decreasing created_at
\* order when the backend returned the rows newest first, as the query asks.
C12_InversoDeLoRecibido ==
    paso.op = "cargarFin" =>
        /\ paso.tipo # "filas" => mensajes = <<>>
        /\ paso.tipo = "filas" =>
              /\ Len(mensajes) = Len(paso.filas)
              /\ \A j \in 1..Len(mensajes) :
                    /\ mensajes[j].id = paso.filas[Len(paso.filas) + 1 - j]
                    /\ mensajes[j].created_at = Fila(mensajes[j].id).created_at
              /\ (\A j, k \in 1..Len(paso.filas) :
                     j < k => Fila(paso.filas[j]).created_at
                                 >= Fila(paso.filas[k]).created_at)
                 => \A j, k \in 1..Len(mensajes) :
                       j < k => mensajes[j].created_at <= mensajes[k].created_at

\* A load whose rows came newest first and replaced a list in another order.
C12_Testigo ==
    /\ paso.op = "cargarFin"
    /\ paso.tipo = "filas"
    /\ paso.filas = <<2, 1>>
    /\ Len(paso.mensajesAntes) = 2
    /\ paso.mensajesAntes[1].id = 2
    /\ mensajes[1].id = 1
    /\ mensajes[2].id = 2

\* C13: the hook's delete removes the message with the given id from the UI
\* list exactly when the backend delete reports success; when it fails the list
\* is left as it was and the failure result is what the hook returns.
C13_EliminaSoloConExito ==
    paso.op = "eliminar" =>
        /\ paso.resultado.success <=> paso.resp = "ok"
        /\ paso.resultado.success =>
              /\ \A j \in 1..Len(mensajes) : mensajes[j].id # paso.idMsg
              /\ mensajes = SelectSeq(paso.mensajesAntes,
                                      LAMBDA m : m.id # paso.idMsg)
        /\ ~paso.resultado.success =>
              /\ mensajes = paso.mensajesAntes
              /\ paso.resultado = [success |-> FALSE, error |-> "error.message"]

\* A failed delete of a message that is in the list, which still holds it.
C13_Testigo ==
    /\ paso.op = "eliminar"
    /\ paso.resp = "error"
    /\ ~paso.resultado.success
    /\ Len(mensajes) = 2
    /\ \E j \in 1..Len(mensajes) : mensajes[j].id = paso.idMsg

\* C14: a send, successful or not, leaves the UI message list as it was; the
\* hook appends nothing for the message it sent.
C14_EnviarNoTocaLista ==
    paso.op \in {"enviarInicio", "enviarFin"} => mensajes = paso.mensajesAntes

\* A successful send that inserted its row while the list held two messages.
C14_Testigo ==
    /\ paso.op = "enviarFin"
    /\ paso.resultado.success
    /\ paso.insertoMensaje
    /\ Len(mensajes) = 2
    /\ Len(tablaMensajes) = 1

\* C15 as stated: every change of the input to a non-empty text emits a typing
\* event (a call of enviarEventoEscritura(true)) and arms the timer.
C15_TodoBufferNoVacioEmite ==
    (paso.op = "input" /\ paso.contenido # <<>>) =>
        /\ paso.evento
        /\ escrituras.usuario = paso.escriturasAntes.usuario + 1
        /\ temporizadores.actual

\* C15 amended: a change of the input to a text with a character that is not
\* white space calls enviarEventoEscritura(true) and (re)arms the timer, each
\* time; the call, which goes on after the change, issues its insert when
\* getUser answers a user and has inserted one row when that insert succeeds,
\* and none otherwise.  A change to an empty or whitespace-only text makes no
\* call, inserts nothing and leaves no timer.
C15_BufferConTextoEmite ==
    /\ paso.op = "input" =>
          /\ indicadores = paso.indicadoresAntes
          /\ (\E j \in 1..Len(paso.contenido) :
                 paso.contenido[j] \notin EspaciosEnBlanco)
             => /\ paso.evento
                /\ temporizadores.actual
                /\ typingTimeoutRef = "handle"
                /\ escrituras = [paso.escriturasAntes EXCEPT !.usuario = @ + 1]
          /\ (\A j \in 1..Len(paso.contenido) :
                 paso.contenido[j] \in EspaciosEnBlanco)
             => /\ ~paso.evento
                /\ escrituras = paso.escriturasAntes
                /\ ~temporizadores.actual
                /\ typingTimeoutRef = "null"
    /\ paso.op = "escrituraUsuario" =>
          /\ indicadores = paso.indicadoresAntes
          /\ escrituras.usuario = paso.escriturasAntes.usuario - 1
          /\ escrituras.insert = paso.escriturasAntes.insert
                                    + IF paso.resp = "ok" THEN 1 ELSE 0
    /\ paso.op = "escrituraInsert" =>
          /\ escrituras = [paso.escriturasAntes EXCEPT !.insert = @ - 1]
          /\ indicadores = paso.indicadoresAntes
                              + IF paso.resp = "ok" THEN 1 ELSE 0

\* The insert of the second change to a text with a letter succeeded: a second
\* row is in the table, after both changes had armed the timer.
C15_Testigo ==
    /\ paso.op = "escrituraInsert"
    /\ paso.resp = "ok"
    /\ paso.insertoIndicador
    /\ paso.indicadoresAntes = 1
    /\ indicadores = 2
    /\ inputTexto = <<" ", "a", " ">>
    /\ temporizadores.actual

\* C16: at most one debounce timer is pending at any time: the only pending
\* timer is the one the ref names, and a change that arms a timer leaves
\* exactly that one pending.
C16_UnSoloTimer ==
    /\ temporizadores.sueltos = 0
    /\ temporizadores.actual => typingTimeoutRef = "handle"
    /\ (paso.op = "input" /\ paso.evento) => temporizadores.actual

\* A change armed the timer while the previous one was still pending.
C16_Testigo ==
    /\ paso.op = "input"
    /\ paso.evento
    /\ paso.timerAntes
    /\ temporizadores.actual
    /\ paso.escriturasAntes.usuario = 1

\* C17: when a send finishes, and when the input becomes empty, no debounce
\* timer is left pending, the ref is null, and no row is inserted into the
\* typing log: there is no stop notification.
C17_CancelaSinAvisar ==
    (\/ paso.op = "enviarFin"
     \/ (paso.op = "input" /\ paso.contenido = <<>>))
    => /\ ~temporizadores.actual
       /\ temporizadores.sueltos = 0
       /\ typingTimeoutRef = "null"
       /\ ~paso.insertoIndicador
       /\ indicadores = paso.indicadoresAntes

\* A successful send finished while the debounce timer was pending, after one
\* typing row had been inserted.
C17_Testigo ==
    /\ paso.op = "enviarFin"
    /\ paso.resp = "ok"
    /\ paso.resultado.success
    /\ paso.timerAntes
    /\ indicadores = 1

\* C18: at any time at most one typing subscription (channel and sweep
\* interval) and at most one message subscription are live on the shared
\* ChatUseCase: a subscribe made while one of its kind is active does not
\* leave two live.
C18_ALoSumoUnaViva ==
    /\ Cardinality(canalesE) <= 1
    /\ Cardinality({i \in Subs : subsE[i].intervalo}) <= 1
    /\ Cardinality(canalesM) <= 1

\* C19: no chat operation rejects: enviarMensaje and eliminarMensaje resolve,
\* under every backend outcome, to a result whose success flag is true exactly
\* when the backend did what was asked and which carries an error otherwise,
\* and obtenerMensajes and enviarEventoEscritura resolve under every outcome.
C19_NingunaOperacionRechaza ==
    /\ paso.op \in {"enviarFin", "eliminar", "cargarFin", "input",
                   "escrituraUsuario", "escrituraInsert"} =>
          ~paso.rechaza
    /\ paso.op \in {"enviarFin", "eliminar"} =>
          /\ paso.resultado.success \in BOOLEAN
          /\ paso.resultado.success <=> paso.resp = "ok"
          /\ ~paso.resultado.success => paso.resultado.error # ""
    /\ paso.op = "enviarFin" =>
          (paso.insertoMensaje <=> paso.resultado.success)
    /\ (paso.op = "cargarFin" /\ paso.tipo \in {"error", "excepcion"}) =>
          mensajes = <<>>

\* A delete whose backend call threw resolved to a failure result, after a
\* send had inserted its row and a typing event had been sent without a user.
C19_Testigo ==
    /\ paso.op = "eliminar"
    /\ paso.resp = "excepcion"
    /\ ~paso.rechaza
    /\ ~paso.resultado.success
    /\ Len(tablaMensajes) = 1
    /\ typingTimeoutRef = "handle"
    /\ indicadores = 0

\* C20: after a completed login with recordarSesion = false and no login
\* since, once the app was closed and opened again and verificarSesionInicial
\* of the new mount has finished, usuario is null.
C20_ReabrirMuestraLogin ==
    (/\ histA.ultimoLogin = "sinRecordar"
     /\ histA.cerrada
     /\ montado
     /\ verificacion.fase = "no")
    => usuario = NullUsuario

\* C21: a sweep removes every entry whose age is more than 3000 ms and no
\* other (an entry exactly 3000 ms old stays), keeps the order of the rest,
\* and calls the callback with the remaining keys when it removed an entry and
\* not at all when it removed none.
C21_BarridoExacto ==
    paso.op = "limpieza" =>
        /\ subsE[paso.sub].mapa =
              SelectSeq(paso.mapaAntes,
                        LAMBDA e : now - e.timestamp <= InactividadMs)
        /\ paso.cb <=> \E j \in 1..Len(paso.mapaAntes) :
                          now - paso.mapaAntes[j].timestamp > InactividadMs
        /\ paso.cb => /\ paso.lista = MapKeys(subsE[paso.sub].mapa)
                      /\ usuariosEscribiendo = paso.lista

\* A sweep that kept an entry exactly 3000 ms old and removed an older one.
C21_Testigo ==
    /\ paso.op = "limpieza"
    /\ Len(paso.mapaAntes) = 2
    /\ Len(subsE[paso.sub].mapa) = 1
    /\ now - subsE[paso.sub].mapa[1].timestamp = InactividadMs
    /\ paso.cb

\* C22: while the typing subscription is live, a user whose last received
\* event is at most 3000 ms old is in the presence set: no sweep, in any
\* interleaving with the deliveries, removes a user whose next event is still
\* to come within 3000 ms of the last one.
C22_SinParpadeo ==
    \A i \in Subs :
       subsE[i].intervalo =>
          \A u \in Usuarios :
             (/\ ultimoEvento[i][u] # SinEvento
              /\ now - ultimoEvento[i][u] <= InactividadMs)
             => /\ MapHas(subsE[i].mapa, u)
                /\ u \in Rango(usuariosEscribiendo)

\* An event of a user arrived 3000 ms after the previous one, after the sweep
\* of that instant had run, and found the user still in the set.
C22_Testigo ==
    /\ paso.op = "insert"
    /\ paso.enVivo
    /\ paso.alLimite
    /\ paso.antes = <<paso.user>>
    /\ subsE[paso.sub].proximo > now
    /\ barridoTardio[paso.sub]

\* C23: while the typing subscription is live and its sweep fires every
\* 1000 ms (each sweep at the instant it is due, none overdue), no user is in
\* the presence set more than 4000 ms after that user's last received event.
C23_FueraALos4s ==
    \A i \in Subs :
       (subsE[i].intervalo /\ ~barridoTardio[i] /\ now <= subsE[i].proximo) =>
          \A u \in Usuarios :
             (MapHas(subsE[i].mapa, u) \/ u \in Rango(usuariosEscribiendo))
             => /\ ultimoEvento[i][u] # SinEvento
                /\ now - ultimoEvento[i][u]
                      <= InactividadMs + IntervaloLimpiezaMs

\* Two users, both 4000 ms after their last event, removed by one sweep.
C23_Testigo ==
    /\ paso.op = "limpieza"
    /\ Len(paso.mapaAntes) = 2
    /\ \A j \in 1..2 :
          now - paso.mapaAntes[j].timestamp = InactividadMs + IntervaloLimpiezaMs
    /\ subsE[paso.sub].mapa = <<>>
    /\ usuariosEscribiendo = <<>>
    /\ ~barridoTardio[paso.sub]

\* C24: the unsubscribe function of one subscribe call hands to removeChannel
\* only the channel that same call created (or none): it does not remove the
\* channel of a newer subscription made before it ran.
C24_SoloLoPropio ==
    paso.op \in {"desuscribirE", "desuscribirM"} =>
        paso.removido \in {Null, paso.sub}

\* C25: every insert-event delivered to a message subscription whose
\* unsubscribe has not been called invokes onInsert, whatever its enrichment
\* fetch answers: a row, an error, no row and no error, or an exception.
C25_CadaEventoAvisa ==
    (paso.op = "fetch" /\ ~subsM[paso.sub].cancelada) => paso.cb

\* C26: the messages the relay pushed are in the UI list in the order in
\* which their insert-events were delivered by the feed, also when the
\* enrichment fetches of consecutive events end in another order (rows are
\* numbered in the order of their first insert-event).
C26_OrdenDeEntrega ==
    \A j, k \in 1..Len(mensajes) :
       (j < k /\ mensajes[j].id <= entregados /\ mensajes[k].id <= entregados)
       => mensajes[j].id < mensajes[k].id

\* C27: a message the subscription path appended while a load was in flight
\* is in the UI list after that load completes.
C27_CargaNoDescarta ==
    paso.op = "cargarFin" =>
        \A id \in paso.empujados :
           (\E j \in 1..Len(paso.mensajesAntes) : paso.mensajesAntes[j].id = id)
           => \E j \in 1..Len(mensajes) : mensajes[j].id = id

\* C28: once iniciarSesion with recordarSesion = false has signed in, no
\* step writes the user under SESSION_USER_KEY, however the steps of the
\* login interleave with those of the callback useAuth registered.
C28_SinRecordarNoGuarda ==
    paso.guardoUsuario =>
        ~(\/ (login.fase = "preferencia" /\ ~login.recordar)
          \/ histA.ultimoLogin = "sinRecordar")

====
